---- MODULE Spec2Model ----
(***************************************************************************)
(* ncollide narrow phase: the ContactKinematic tracker                     *)
(* (ncollide_geometry/query/contacts_internal/contact_kinematic.rs) and    *)
(* the VoronoiSimplex of GJK (src/query/algorithms/voronoi_simplex3.rs).   *)
(*                                                                         *)
(* Numbers are exact.  Points and vectors are integer triples.  A          *)
(* Unit<Vector> is kept as the primitive integer vector of its direction   *)
(* (the vector divided by the gcd of its coordinates); it stands for that  *)
(* vector divided by its norm.  A norm is kept as sign * sqrt(sq) + rat.   *)
(* Lengths are counted in multiples of the tolerance default_epsilon().    *)
(***************************************************************************)
EXTENDS Integers, Sequences, FiniteSets, TLC

VARIABLES ck, op, ret, given1, given2, vs, vop, vret, prox, gen, util

vars == <<ck, op, ret, given1, given2, vs, vop, vret, prox, gen, util>>

(***************************************************************************)
(* Bounds of the model.                                                    *)
(***************************************************************************)
\* Margins given to set_dilation1/set_dilation2 range over 0..MaxMargin.
MaxMargin == 1
\* Barycentric coordinates are counted in parts of Den: N::one() is Den parts.
Den == 6

(***************************************************************************)
(* Vectors, rotations, isometries (na::, math::Isometry).                  *)
(***************************************************************************)
Abs(x) == IF x < 0 THEN -x ELSE x

Zero3 == <<0, 0, 0>>

VAdd(a, b) == <<a[1] + b[1], a[2] + b[2], a[3] + b[3]>>

VSub(a, b) == <<a[1] - b[1], a[2] - b[2], a[3] - b[3]>>

VNeg(a) == <<-a[1], -a[2], -a[3]>>

VScale(a, k) == <<a[1] * k, a[2] * k, a[3] * k>>

Dot(a, b) == a[1] * b[1] + a[2] * b[2] + a[3] * b[3]

NormSq(a) == Dot(a, a)

RECURSIVE Gcd(_, _)
Gcd(a, b) == IF b = 0 THEN a ELSE Gcd(b, a % b)

\* The direction of a non-zero vector: the vector over the gcd of its coordinates.
Primitive(v) ==
    LET g == Gcd(Gcd(Abs(v[1]), Abs(v[2])), Abs(v[3]))
    IN  IF g = 0 THEN v ELSE <<v[1] \div g, v[2] \div g, v[3] \div g>>

IsSquare(q) == \E r \in 0..q : r * r = q

ISqrt(q) == CHOOSE r \in 0..q : r * r <= q /\ (r + 1) * (r + 1) > q

\* sign * sqrt(q) as an exact number sg * sqrt(sq) + rat.
Root(sign, q) ==
    IF IsSquare(q) THEN [sg |-> 0, sq |-> 0, rat |-> sign * ISqrt(q)]
    ELSE [sg |-> sign, sq |-> q, rat |-> 0]

RInt(k) == [sg |-> 0, sq |-> 0, rat |-> k]

RAddInt(r, k) == [r EXCEPT !.rat = @ + k]

\* The square of a number that has no rational part, or no root part.
RSquare(r) == IF r.sg = 0 THEN r.rat * r.rat ELSE r.sq

\* p + k * (n / |n|): a point moved by k along the unit vector of direction n.
Along(p, n, k) ==
    LET l == ISqrt(NormSq(n))
    IN  IF k = 0 THEN [base |-> p, dir |-> Zero3, k |-> 0]
        ELSE IF IsSquare(NormSq(n)) /\ k % l = 0
             THEN [base |-> VAdd(p, VScale(n, k \div l)), dir |-> Zero3, k |-> 0]
        ELSE IF k < 0 THEN [base |-> p, dir |-> VNeg(n), k |-> -k]
        ELSE [base |-> p, dir |-> n, k |-> k]

MatVec(r, v) == <<Dot(r[1], v), Dot(r[2], v), Dot(r[3], v)>>

Transpose(r) ==
    << <<r[1][1], r[2][1], r[3][1]>>,
       <<r[1][2], r[2][2], r[3][2]>>,
       <<r[1][3], r[2][3], r[3][3]>> >>

RotId == << <<1, 0, 0>>, <<0, 1, 0>>, <<0, 0, 1>> >>

\* The quarter turn about the z axis: x -> y, y -> -x.
RotZ90 == << <<0, -1, 0>>, <<1, 0, 0>>, <<0, 0, 1>> >>

\* The quarter turn about the x axis: y -> z, z -> -y.
RotX90 == << <<1, 0, 0>>, <<0, 0, -1>>, <<0, 1, 0>> >>

Iso(r, t) == [rot |-> r, tr |-> t]

identity == Iso(RotId, Zero3)

transform_point(m, p) == VAdd(MatVec(m.rot, p), m.tr)

transform_unit_vector(m, u) == MatVec(m.rot, u)

inverse_transform_unit_vector(m, u) == MatVec(Transpose(m.rot), u)

\* Unit::try_new_and_get(v, min_norm): the direction and the norm of v, or
\* nothing when the norm does not exceed min_norm (given by its square).
try_new_and_get(v, min_norm_sq) ==
    IF NormSq(v) > min_norm_sq
    THEN [some |-> TRUE, n |-> Primitive(v), dsq |-> NormSq(v)]
    ELSE [some |-> FALSE, n |-> Zero3, dsq |-> 0]

\* P::Real::default_epsilon(), squared, in the unit of length of the model.
default_epsilon_sq == 1

(***************************************************************************)
(* PolyhedralCone: a sequence of unit generators.                          *)
(***************************************************************************)
ConeNew == <<>>

ConeTransformBy(cone, m) == [i \in 1..Len(cone) |-> transform_unit_vector(m, cone[i])]

\* The direction passes the cone test when no generator has a positive
\* component along it.
polar_contains_dir(cone, dir) == \A i \in 1..Len(cone) : Dot(cone[i], dir) <= 0

(***************************************************************************)
(* KinematicVariant: <<tag>>, <<tag, dir>> or <<"LineLine", dir1, dir2>>.  *)
(***************************************************************************)
Role1(v) ==
    IF v[1] \in {"PlanePoint", "PlaneLine", "PlanePlane"} THEN "Plane"
    ELSE IF v[1] \in {"LinePoint", "LineLine", "LinePlane"} THEN "Line"
    ELSE "Point"

Role2(v) ==
    IF v[1] \in {"PointPlane", "LinePlane", "PlanePlane"} THEN "Plane"
    ELSE IF v[1] \in {"PointLine", "LineLine", "PlaneLine"} THEN "Line"
    ELSE "Point"

\* The line direction the variant stores for side 1 / side 2, if any.
Dir1(v) == IF Role1(v) = "Line" THEN v[2] ELSE Zero3

Dir2(v) ==
    IF v[1] = "LineLine" THEN v[3]
    ELSE IF Role2(v) = "Line" THEN v[2]
    ELSE Zero3

(***************************************************************************)
(* ContactKinematic.                                                       *)
(***************************************************************************)
new ==
    [local1 |-> Zero3, local2 |-> Zero3,
     margin1 |-> 0, margin2 |-> 0,
     normals1 |-> ConeNew, normals2 |-> ConeNew,
     feature1 |-> "Unknown", feature2 |-> "Unknown",
     variant |-> <<"PointPoint">>]

\* transform1 turning both directions of a Line x Line variant.
transform1_both_dirs(k, m) ==
    [k EXCEPT
       !.local1 = transform_point(m, k.local1),
       !.normals1 = ConeTransformBy(k.normals1, m),
       !.variant =
         CASE k.variant[1] = "LinePoint" -> <<"LinePoint", transform_unit_vector(m, k.variant[2])>>
           [] k.variant[1] = "LineLine" ->
                <<"LineLine", transform_unit_vector(m, k.variant[2]),
                  transform_unit_vector(m, k.variant[3])>>
           [] k.variant[1] = "LinePlane" -> <<"LinePlane", transform_unit_vector(m, k.variant[2])>>
           [] OTHER -> k.variant]

transform1(k, m) ==
    [k EXCEPT
       !.local1 = transform_point(m, k.local1),
       !.normals1 = ConeTransformBy(k.normals1, m),
       !.variant =
         CASE k.variant[1] = "LinePoint" -> <<"LinePoint", transform_unit_vector(m, k.variant[2])>>
           [] k.variant[1] = "LineLine" ->
                <<"LineLine", transform_unit_vector(m, k.variant[2]), k.variant[3]>>
           [] k.variant[1] = "LinePlane" -> <<"LinePlane", transform_unit_vector(m, k.variant[2])>>
           [] OTHER -> k.variant]

\* transform2 reading the anchor of side 1.
transform2_from_local1(k, m) ==
    [k EXCEPT
       !.local2 = transform_point(m, k.local1),
       !.normals2 = ConeTransformBy(k.normals2, m),
       !.variant =
         CASE k.variant[1] = "PointLine" -> <<"PointLine", transform_unit_vector(m, k.variant[2])>>
           [] k.variant[1] = "LineLine" ->
                <<"LineLine", k.variant[2], transform_unit_vector(m, k.variant[3])>>
           [] k.variant[1] = "PlaneLine" -> <<"PlaneLine", transform_unit_vector(m, k.variant[2])>>
           [] OTHER -> k.variant]

transform2(k, m) ==
    [k EXCEPT
       !.local2 = transform_point(m, k.local2),
       !.normals2 = ConeTransformBy(k.normals2, m),
       !.variant =
         CASE k.variant[1] = "PointLine" -> <<"PointLine", transform_unit_vector(m, k.variant[2])>>
           [] k.variant[1] = "LineLine" ->
                <<"LineLine", k.variant[2], transform_unit_vector(m, k.variant[3])>>
           [] k.variant[1] = "PlaneLine" -> <<"PlaneLine", transform_unit_vector(m, k.variant[2])>>
           [] OTHER -> k.variant]

set_dilation1(k, margin) == [k EXCEPT !.margin1 = margin]

set_dilation2(k, margin) == [k EXCEPT !.margin2 = margin]

\* set_plane1 adding the normal to the cone without clearing it first.
set_plane1_without_clear(k, fid, pt, normal) ==
    [k EXCEPT
       !.feature1 = fid,
       !.local1 = pt,
       !.normals1 = Append(k.normals1, normal),
       !.variant =
         CASE k.variant[1] = "PointPlane" -> <<"PlanePlane">>
           [] k.variant[1] = "PointPoint" -> <<"PlanePoint">>
           [] k.variant[1] = "PointLine" -> <<"PlaneLine", k.variant[2]>>
           [] k.variant[1] = "LinePoint" -> <<"PlanePoint">>
           [] k.variant[1] = "LineLine" -> <<"PlaneLine", k.variant[3]>>
           [] k.variant[1] = "LinePlane" -> <<"PlanePlane">>
           [] OTHER -> k.variant]

\* set_plane1 keeping the direction of the wrong side of a Line x Line variant.
set_plane1_wrong_dir(k, fid, pt, normal) ==
    [k EXCEPT
       !.feature1 = fid,
       !.local1 = pt,
       !.normals1 = <<normal>>,
       !.variant =
         CASE k.variant[1] = "PointPlane" -> <<"PlanePlane">>
           [] k.variant[1] = "PointPoint" -> <<"PlanePoint">>
           [] k.variant[1] = "PointLine" -> <<"PlaneLine", k.variant[2]>>
           [] k.variant[1] = "LinePoint" -> <<"PlanePoint">>
           [] k.variant[1] = "LineLine" -> <<"PlaneLine", k.variant[2]>>
           [] k.variant[1] = "LinePlane" -> <<"PlanePlane">>
           [] OTHER -> k.variant]

set_plane1(k, fid, pt, normal) ==
    [k EXCEPT
       !.feature1 = fid,
       !.local1 = pt,
       !.normals1 = <<normal>>,
       !.variant =
         CASE k.variant[1] = "PointPlane" -> <<"PlanePlane">>
           [] k.variant[1] = "PointPoint" -> <<"PlanePoint">>
           [] k.variant[1] = "PointLine" -> <<"PlaneLine", k.variant[2]>>
           [] k.variant[1] = "LinePoint" -> <<"PlanePoint">>
           [] k.variant[1] = "LineLine" -> <<"PlaneLine", k.variant[3]>>
           [] k.variant[1] = "LinePlane" -> <<"PlanePlane">>
           [] OTHER -> k.variant]

set_plane2(k, fid, pt, normal) ==
    [k EXCEPT
       !.feature2 = fid,
       !.local2 = pt,
       !.normals2 = <<normal>>,
       !.variant =
         CASE k.variant[1] = "PlanePoint" -> <<"PlanePlane">>
           [] k.variant[1] = "PointPoint" -> <<"PointPlane">>
           [] k.variant[1] = "PointLine" -> <<"PointPlane">>
           [] k.variant[1] = "LinePoint" -> <<"LinePlane", k.variant[2]>>
           [] k.variant[1] = "LineLine" -> <<"LinePlane", k.variant[2]>>
           [] k.variant[1] = "PlaneLine" -> <<"PlanePlane">>
           [] OTHER -> k.variant]

set_line1(k, fid, pt, dir, normals) ==
    [k EXCEPT
       !.feature1 = fid,
       !.local1 = pt,
       !.normals1 = normals,
       !.variant =
         CASE k.variant[1] = "PlanePoint" -> <<"LinePoint", dir>>
           [] k.variant[1] = "PointPlane" -> <<"LinePlane", dir>>
           [] k.variant[1] = "PointPoint" -> <<"LinePoint", dir>>
           [] k.variant[1] = "PointLine" -> <<"LineLine", dir, k.variant[2]>>
           [] k.variant[1] = "LinePoint" -> <<"LinePoint", dir>>
           [] k.variant[1] = "LineLine" -> <<"LineLine", dir, k.variant[3]>>
           [] k.variant[1] = "PlanePlane" -> <<"LinePlane", dir>>
           [] k.variant[1] = "PlaneLine" -> <<"LineLine", dir, k.variant[2]>>
           [] k.variant[1] = "LinePlane" -> <<"LinePlane", dir>>]

set_line2(k, fid, pt, dir, normals) ==
    [k EXCEPT
       !.feature2 = fid,
       !.local2 = pt,
       !.normals2 = normals,
       !.variant =
         CASE k.variant[1] = "PlanePoint" -> <<"PlaneLine", dir>>
           [] k.variant[1] = "PointPlane" -> <<"PointLine", dir>>
           [] k.variant[1] = "PointPoint" -> <<"PointLine", dir>>
           [] k.variant[1] = "PointLine" -> <<"PointLine", dir>>
           [] k.variant[1] = "LinePoint" -> <<"LineLine", k.variant[2], dir>>
           [] k.variant[1] = "LineLine" -> <<"LineLine", k.variant[2], dir>>
           [] k.variant[1] = "PlanePlane" -> <<"PlaneLine", dir>>
           [] k.variant[1] = "PlaneLine" -> <<"PlaneLine", dir>>
           [] k.variant[1] = "LinePlane" -> <<"LineLine", k.variant[2], dir>>]

\* set_point1 leaving a Plane x Plane variant as it is.
set_point1_keeps_PlanePlane(k, fid, pt, normals) ==
    [k EXCEPT
       !.feature1 = fid,
       !.local1 = pt,
       !.normals1 = normals,
       !.variant =
         CASE k.variant[1] = "PlanePoint" -> <<"PointPoint">>
           [] k.variant[1] = "LinePoint" -> <<"PointPoint">>
           [] k.variant[1] = "LineLine" -> <<"PointLine", k.variant[3]>>
           [] k.variant[1] = "PlaneLine" -> <<"PointLine", k.variant[2]>>
           [] k.variant[1] = "LinePlane" -> <<"PointPlane">>
           [] OTHER -> k.variant]

set_point1(k, fid, pt, normals) ==
    [k EXCEPT
       !.feature1 = fid,
       !.local1 = pt,
       !.normals1 = normals,
       !.variant =
         CASE k.variant[1] = "PlanePoint" -> <<"PointPoint">>
           [] k.variant[1] = "LinePoint" -> <<"PointPoint">>
           [] k.variant[1] = "LineLine" -> <<"PointLine", k.variant[3]>>
           [] k.variant[1] = "PlanePlane" -> <<"PointPlane">>
           [] k.variant[1] = "PlaneLine" -> <<"PointLine", k.variant[2]>>
           [] k.variant[1] = "LinePlane" -> <<"PointPlane">>
           [] OTHER -> k.variant]

set_point2(k, fid, pt, normals) ==
    [k EXCEPT
       !.feature2 = fid,
       !.local2 = pt,
       !.normals2 = normals,
       !.variant =
         CASE k.variant[1] = "PointPlane" -> <<"PointPoint">>
           [] k.variant[1] = "PointLine" -> <<"PointPoint">>
           [] k.variant[1] = "LineLine" -> <<"LinePoint", k.variant[2]>>
           [] k.variant[1] = "PlanePlane" -> <<"PlanePoint">>
           [] k.variant[1] = "PlaneLine" -> <<"PlanePoint">>
           [] k.variant[1] = "LinePlane" -> <<"LinePoint", k.variant[2]>>
           [] OTHER -> k.variant]

\* closest_points_internal::line_against_line for unit directions: the
\* parameters (s, t) of the closest points of the two infinite lines; parallel
\* lines keep the origin of the first one (s = 0).
line_against_line(orig1, dir1, orig2, dir2) ==
    LET r == VSub(orig1, orig2)
        f == Dot(dir2, r)
        c == Dot(dir1, r)
        b == Dot(dir1, dir2)
        denom == 1 - b * b
        s == IF denom > 0 THEN (b * f - c) \div denom ELSE 0
        t == b * s + f
    IN  <<VAdd(orig1, VScale(dir1, s)), VAdd(orig2, VScale(dir2, t))>>

\* The sign resolution shared by the Point/Line branches of contact(): the
\* direction n (of length sqrt(dsq)) from world1 to world2 is a penetration
\* when it passes the cone test of either side in that side's local frame.
\* The sign resolution testing side 1's cone with the world direction.
ResolveSign_world_n1(k, m1, m2, n, dsq) ==
    LET local_n2 == inverse_transform_unit_vector(m2, VNeg(n))
    IN  IF polar_contains_dir(k.normals1, n) \/ polar_contains_dir(k.normals2, local_n2)
        THEN [depth |-> Root(1, dsq), normal |-> VNeg(n)]
        ELSE [depth |-> Root(-1, dsq), normal |-> n]

ResolveSign(k, m1, m2, n, dsq) ==
    LET local_n1 == inverse_transform_unit_vector(m1, n)
        local_n2 == inverse_transform_unit_vector(m2, VNeg(n))
    IN  IF polar_contains_dir(k.normals1, local_n1) \/ polar_contains_dir(k.normals2, local_n2)
        THEN [depth |-> Root(1, dsq), normal |-> VNeg(n)]
        ELSE [depth |-> Root(-1, dsq), normal |-> n]

\* What contact() returns when the normal cannot be determined.
Fallback(m1, default_normal1) ==
    [depth |-> RInt(0), normal |-> transform_unit_vector(m1, default_normal1)]

Geom(w1, w2, nd) == [kind |-> "Some", world1 |-> w1, world2 |-> w2,
                     normal |-> nd.normal, depth |-> nd.depth]

NoContact == [kind |-> "None"]

\* generators()[0] of an empty cone: an index out of range.
Panic == [kind |-> "Panic"]

contact_PlanePoint(k, m1, m2) ==
    LET world1 == transform_point(m1, k.local1)
        world2 == transform_point(m2, k.local2)
    IN  IF Len(k.normals1) = 0 THEN Panic
        ELSE LET normal == transform_unit_vector(m1, k.normals1[1])
                 depth == -Dot(normal, VSub(world2, world1))
             IN  Geom(VAdd(world2, VScale(normal, depth)), world2,
                      [depth |-> RInt(depth), normal |-> normal])

\* The Point x Plane branch reading the plane normal in side 2's local frame.
contact_PointPlane_local_normal(k, m1, m2) ==
    LET world1 == transform_point(m1, k.local1)
        world2 == transform_point(m2, k.local2)
    IN  IF Len(k.normals2) = 0 THEN Panic
        ELSE LET world_normal2 == k.normals2[1]
                 depth == -Dot(world_normal2, VSub(world1, world2))
             IN  Geom(world1, VAdd(world1, VScale(world_normal2, depth)),
                      [depth |-> RInt(depth), normal |-> VNeg(world_normal2)])

contact_PointPlane(k, m1, m2) ==
    LET world1 == transform_point(m1, k.local1)
        world2 == transform_point(m2, k.local2)
    IN  IF Len(k.normals2) = 0 THEN Panic
        ELSE LET world_normal2 == transform_unit_vector(m2, k.normals2[1])
                 depth == -Dot(world_normal2, VSub(world1, world2))
             IN  Geom(world1, VAdd(world1, VScale(world_normal2, depth)),
                      [depth |-> RInt(depth), normal |-> VNeg(world_normal2)])

\* The Point x Point branch taking the direction from world point 2 to
\* world point 1.
contact_PointPoint_from_world2(k, m1, m2, default_normal1) ==
    LET world1 == transform_point(m1, k.local1)
        world2 == transform_point(m2, k.local2)
        nd == try_new_and_get(VSub(world1, world2), default_epsilon_sq)
    IN  IF nd.some THEN Geom(world1, world2, ResolveSign(k, m1, m2, nd.n, nd.dsq))
        ELSE Geom(world1, world2, Fallback(m1, default_normal1))

contact_PointPoint(k, m1, m2, default_normal1) ==
    LET world1 == transform_point(m1, k.local1)
        world2 == transform_point(m2, k.local2)
        nd == try_new_and_get(VSub(world2, world1), default_epsilon_sq)
    IN  IF nd.some THEN Geom(world1, world2, ResolveSign(k, m1, m2, nd.n, nd.dsq))
        ELSE Geom(world1, world2, Fallback(m1, default_normal1))

contact_LinePoint(k, m1, m2, default_normal1) ==
    LET world1 == transform_point(m1, k.local1)
        world2 == transform_point(m2, k.local2)
        dir1 == k.variant[2]
        world_dir1 == transform_unit_vector(m1, dir1)
        proj == Dot(world_dir1, VSub(world2, world1))
        shift == VSub(VSub(world2, world1), VScale(dir1, proj))
        nd == try_new_and_get(shift, 0)
    IN  IF nd.some THEN Geom(VAdd(world2, VNeg(shift)), world2,
                             ResolveSign(k, m1, m2, nd.n, nd.dsq))
        ELSE Geom(world1, world2, Fallback(m1, default_normal1))

contact_PointLine(k, m1, m2, default_normal1) ==
    LET world1 == transform_point(m1, k.local1)
        world2 == transform_point(m2, k.local2)
        dir2 == k.variant[2]
        world_dir2 == transform_unit_vector(m2, dir2)
        proj == Dot(world_dir2, VSub(world1, world2))
        shift == VNeg(VSub(VSub(world1, world2), VScale(dir2, proj)))
        nd == try_new_and_get(shift, 0)
    IN  IF nd.some THEN Geom(world1, VAdd(world1, shift),
                             ResolveSign(k, m1, m2, nd.n, nd.dsq))
        ELSE Geom(world1, world2, Fallback(m1, default_normal1))

contact_LineLine(k, m1, m2, default_normal1) ==
    LET world_dir1 == transform_unit_vector(m1, k.variant[2])
        world_dir2 == transform_unit_vector(m2, k.variant[3])
        pts == line_against_line(transform_point(m1, k.local1), world_dir1,
                                 transform_point(m2, k.local2), world_dir2)
        world1 == pts[1]
        world2 == pts[2]
        nd == try_new_and_get(VSub(world2, world1), 0)
    IN  IF nd.some THEN Geom(world1, world2, ResolveSign(k, m1, m2, nd.n, nd.dsq))
        ELSE Geom(world1, world2, Fallback(m1, default_normal1))

\* contact() without its Line x Line branch.
contact_match_no_LineLine(k, m1, m2, default_normal1) ==
    CASE k.variant[1] = "PlanePoint" -> contact_PlanePoint(k, m1, m2)
      [] k.variant[1] = "PointPlane" -> contact_PointPlane(k, m1, m2)
      [] k.variant[1] = "PointPoint" -> contact_PointPoint(k, m1, m2, default_normal1)
      [] k.variant[1] = "LinePoint" -> contact_LinePoint(k, m1, m2, default_normal1)
      [] k.variant[1] = "PointLine" -> contact_PointLine(k, m1, m2, default_normal1)
      [] OTHER -> NoContact

\* The match on the variant: world points, normal and depth before the margins.
contact_match(k, m1, m2, default_normal1) ==
    CASE k.variant[1] = "PlanePoint" -> contact_PlanePoint(k, m1, m2)
      [] k.variant[1] = "PointPlane" -> contact_PointPlane(k, m1, m2)
      [] k.variant[1] = "PointPoint" -> contact_PointPoint(k, m1, m2, default_normal1)
      [] k.variant[1] = "LinePoint" -> contact_LinePoint(k, m1, m2, default_normal1)
      [] k.variant[1] = "PointLine" -> contact_PointLine(k, m1, m2, default_normal1)
      [] k.variant[1] = "LineLine" -> contact_LineLine(k, m1, m2, default_normal1)
      [] OTHER -> NoContact

\* The margin step moving world point 2 the wrong way.
contact_margins_world2_sign(k, g) ==
    [kind |-> "Some",
     world1 |-> Along(g.world1, g.normal, k.margin1),
     world2 |-> Along(g.world2, g.normal, k.margin2),
     normal |-> g.normal,
     depth |-> RAddInt(g.depth, k.margin1 + k.margin2)]

\* The final step of contact(): the margins.
contact_margins(k, g) ==
    [kind |-> "Some",
     world1 |-> Along(g.world1, g.normal, k.margin1),
     world2 |-> Along(g.world2, g.normal, -k.margin2),
     normal |-> g.normal,
     depth |-> RAddInt(g.depth, k.margin1 + k.margin2)]

contact(k, m1, m2, default_normal1) ==
    LET g == contact_match(k, m1, m2, default_normal1)
    IN  IF g.kind = "Some" THEN contact_margins(k, g) ELSE g

(***************************************************************************)
(* The inputs the callers draw from.                                       *)
(***************************************************************************)
Ex == <<1, 0, 0>>

Ey == <<0, 1, 0>>

\* Local anchors given to set_point/set_line/set_plane.
Anchors == {Zero3, <<1, 1, 0>>}

\* Normal cones given to set_point.
Cones == {<<>>, <<Ex>>}

\* Line directions with their normal cones, given to set_line.
Lines == {<<Ex, <<>> >>, <<Ex, <<Ey>> >>}

\* Plane normals given to set_plane.
Normals == {Ex}

Margins == 0..MaxMargin

\* The quarter turn about the point (1/2, 1/2, 0): a rotation with a translation.
Turn == Iso(RotZ90, Ex)

\* Transforms baked by transform1/transform2, and given to contact() by the
\* state machine.
BakeIsos == {identity, Turn}

DefaultNormals == {Ex}

NoCall == [kind |-> "NoCall"]

(***************************************************************************)
(* The ContactKinematic state machine.                                     *)
(***************************************************************************)
(***************************************************************************)
(* BallBallProximityDetector.  prox holds the detector's proximity, the    *)
(* last call made on it and what the call returned.                        *)
(***************************************************************************)
Ball(r) == [kind |-> "Ball", radius |-> r]

\* A shape that is not a ball: as_shape::<Ball> gives None.
NotABall == [kind |-> "Other"]

\* query::proximity_ball_ball on the two centers: the distance of the
\* centers against the sum of the radii and against that sum plus margin
\* (compared by their squares).
proximity_ball_ball(center1, b1, center2, b2, margin) ==
    LET distance_squared == NormSq(VSub(center2, center1))
        sum_radius == b1.radius + b2.radius
    IN  IF distance_squared < sum_radius * sum_radius THEN "Intersecting"
        ELSE IF distance_squared <= (sum_radius + margin) * (sum_radius + margin)
             THEN "WithinMargin"
        ELSE "Disjoint"

BallBallProximityDetector_new ==
    [proximity |-> "Disjoint", call |-> <<"new">>, returned |-> FALSE]

\* update that takes the centers through the rotations of the transforms.
update_rotated_centers(d, ma, a, mb, b, margin) ==
    IF a.kind = "Ball" /\ b.kind = "Ball"
    THEN [proximity |-> proximity_ball_ball(MatVec(ma.rot, ma.tr), a,
                                            MatVec(mb.rot, mb.tr), b, margin),
          call |-> <<"update", ma, a, mb, b, margin>>,
          returned |-> TRUE]
    ELSE [d EXCEPT !.call = <<"update", ma, a, mb, b, margin>>, !.returned = FALSE]

\* BallBallProximityDetector::update on detector d.
update(d, ma, a, mb, b, margin) ==
    IF a.kind = "Ball" /\ b.kind = "Ball"
    THEN [proximity |-> proximity_ball_ball(ma.tr, a, mb.tr, b, margin),
          call |-> <<"update", ma, a, mb, b, margin>>,
          returned |-> TRUE]
    ELSE [d EXCEPT !.call = <<"update", ma, a, mb, b, margin>>, !.returned = FALSE]

\* BallBallProximityDetector::proximity.
proximity(d) == d.proximity

InitProximity == prox = BallBallProximityDetector_new

(***************************************************************************)
(* CapsuleCapsuleManifoldGenerator, with the manifolds of the pairs it is  *)
(* called for and the id allocator they share.  gen holds them, the last   *)
(* call of generate_contacts, what it returned, the caller's prediction    *)
(* after the call and the invocations of the sub-generator it made.        *)
(***************************************************************************)
Capsule(r) == [kind |-> "Capsule", radius |-> r]

\* A shape that is not a capsule: as_shape::<Capsule> gives None.
NotACapsule == [kind |-> "Other"]

\* Capsule::segment and Capsule::contact_preprocessor.
segment(g) == [kind |-> "Segment", of |-> "Capsule"]

contact_preprocessor(g) == [kind |-> "CapsuleContactPreprocessor", radius |-> g.radius]

\* ContactPrediction, its linear part.
ContactPrediction(l) == [linear |-> l]

linear(prediction) == prediction.linear

set_linear(prediction, l) == [prediction EXCEPT !.linear = l]

\* ContactKinematic::feature1 / feature2.
feature1(k) == k.feature1

feature2(k) == k.feature2

\* IdAllocator: the ids never handed out are those from next on; the freed
\* ones are handed out again first.
IdAllocator_new == [next |-> 0, free |-> {}]

Smallest(S) == CHOOSE x \in S : \A y \in S : x <= y

\* IdAllocator::alloc: the id and the allocator after it.
alloc(a) ==
    IF a.free # {}
    THEN <<Smallest(a.free), [a EXCEPT !.free = a.free \ {Smallest(a.free)}]>>
    ELSE <<a.next, [a EXCEPT !.next = a.next + 1]>>

\* IdAllocator::free for a set of ids.
free_ids(a, ids) == [a EXCEPT !.free = a.free \cup ids]

\* ContactManifold: the set of tracked contacts, each with its id, its
\* kinematic (which holds the two feature ids and the two dilations), its
\* depth and where it is.
ContactManifold_new == {}

TrackedContact(id, kinematic, depth, pos) ==
    [id |-> id, kinematic |-> kinematic, depth |-> depth, pos |-> pos]

\* The contacts of a manifold tracked for the features of kinematic k.
Tracking(manifold, k) ==
    {t \in manifold : feature1(t.kinematic) = feature1(k)
                      /\ feature2(t.kinematic) = feature2(k)}

\* The kinematic the sub-generator gives a contact found between features
\* f1 and f2: two points, dilated by what the preprocessors of the two
\* shapes say.
FoundKinematic(c, proc1, proc2) ==
    set_dilation2(
        set_dilation1(
            set_point2(set_point1(new, c.f1, Zero3, ConeNew), c.f2, Zero3, ConeNew),
            proc1.radius),
        proc2.radius)

RECURSIVE PushFound(_, _, _, _, _, _)
\* ContactManifold::push for the contacts of sequence found from index i on:
\* a contact whose features are tracked in the manifold of the step before
\* (old) keeps that id, another one gets an id of the allocator.  The depth
\* of a contact is minus the distance found, plus the two dilations.  Gives
\* the new manifold and the allocator.
PushFound(old, found, i, proc1, proc2, acc) ==
    IF i > Len(found) THEN acc
    ELSE LET k == FoundKinematic(found[i], proc1, proc2)
             depth == (k.margin1 + k.margin2) - found[i].dist
             tracked == Tracking(old, k)
             id == IF tracked # {} THEN (CHOOSE t \in tracked : TRUE).id
                   ELSE alloc(acc.id_alloc)[1]
             id_alloc == IF tracked # {} THEN acc.id_alloc ELSE alloc(acc.id_alloc)[2]
         IN  PushFound(old, found, i + 1, proc1, proc2,
                       [manifold |-> acc.manifold
                                       \cup {TrackedContact(id, k, depth, found[i].pos)},
                        id_alloc |-> id_alloc])

\* The contacts found that are within the prediction: on the shapes the
\* generator is given, depth >= -prediction.
WithinPrediction(found, prediction) ==
    SelectSeq(found, LAMBDA c : 0 - c.dist >= 0 - linear(prediction))

Ids(manifold) == {t.id : t \in manifold}

\* ConvexPolyhedronConvexPolyhedronManifoldGenerator::generate_contacts on
\* two convex shapes, given what its search found: what it returns, the
\* manifold and the allocator after it, and what it was called with.
sub_generate_contacts(m1, g1, proc1, m2, g2, proc2, prediction, id_alloc, manifold, found) ==
    LET pushed == PushFound(manifold, WithinPrediction(found, prediction), 1, proc1, proc2,
                            [manifold |-> ContactManifold_new, id_alloc |-> id_alloc])
    IN  [returned |-> TRUE,
         manifold |-> pushed.manifold,
         id_alloc |-> free_ids(pushed.id_alloc, Ids(manifold) \ Ids(pushed.manifold)),
         args |-> [m1 |-> m1, g1 |-> g1, proc1 |-> proc1, m2 |-> m2, g2 |-> g2,
                   proc2 |-> proc2, prediction |-> prediction,
                   id_alloc |-> id_alloc, manifold |-> manifold]]

\* do_update adding the radii to the caller's prediction itself.
do_update_in_place(m1, g1, m2, g2, prediction, id_alloc, manifold, found) ==
    LET inflated == set_linear(prediction, linear(prediction) + g1.radius + g2.radius)
        sub == sub_generate_contacts(m1, segment(g1), contact_preprocessor(g1),
                                     m2, segment(g2), contact_preprocessor(g2),
                                     inflated, id_alloc, manifold, found)
    IN  [returned |-> sub.returned, manifold |-> sub.manifold, id_alloc |-> sub.id_alloc,
         prediction |-> inflated, sub_calls |-> <<sub.args>>]

\* do_update adding the radii twice.
do_update_twice_the_radii(m1, g1, m2, g2, prediction, id_alloc, manifold, found) ==
    LET inflated == set_linear(prediction,
                               linear(prediction) + 2 * (g1.radius + g2.radius))
        sub == sub_generate_contacts(m1, segment(g1), contact_preprocessor(g1),
                                     m2, segment(g2), contact_preprocessor(g2),
                                     inflated, id_alloc, manifold, found)
    IN  [returned |-> sub.returned, manifold |-> sub.manifold, id_alloc |-> sub.id_alloc,
         prediction |-> prediction, sub_calls |-> <<sub.args>>]

\* do_update giving the sub-generator a manifold of its own.
do_update_own_manifold(m1, g1, m2, g2, prediction, id_alloc, manifold, found) ==
    LET inflated == set_linear(prediction, linear(prediction) + g1.radius + g2.radius)
        sub == sub_generate_contacts(m1, segment(g1), contact_preprocessor(g1),
                                     m2, segment(g2), contact_preprocessor(g2),
                                     inflated, id_alloc, ContactManifold_new, found)
    IN  [returned |-> sub.returned, manifold |-> sub.manifold, id_alloc |-> sub.id_alloc,
         prediction |-> prediction, sub_calls |-> <<sub.args>>]

\* do_update giving the sub-generator an allocator of its own.
do_update_own_allocator(m1, g1, m2, g2, prediction, id_alloc, manifold, found) ==
    LET inflated == set_linear(prediction, linear(prediction) + g1.radius + g2.radius)
        sub == sub_generate_contacts(m1, segment(g1), contact_preprocessor(g1),
                                     m2, segment(g2), contact_preprocessor(g2),
                                     inflated, IdAllocator_new, manifold, found)
    IN  [returned |-> sub.returned, manifold |-> sub.manifold, id_alloc |-> id_alloc,
         prediction |-> prediction, sub_calls |-> <<sub.args>>]

\* CapsuleCapsuleManifoldGenerator::do_update: what it returns, the manifold,
\* the allocator and the caller's prediction after it, and the invocations of
\* the sub-generator.
do_update(m1, g1, m2, g2, prediction, id_alloc, manifold, found) ==
    LET inflated == set_linear(prediction, linear(prediction) + g1.radius + g2.radius)
        sub == sub_generate_contacts(m1, segment(g1), contact_preprocessor(g1),
                                     m2, segment(g2), contact_preprocessor(g2),
                                     inflated, id_alloc, manifold, found)
    IN  [returned |-> sub.returned, manifold |-> sub.manifold, id_alloc |-> sub.id_alloc,
         prediction |-> prediction, sub_calls |-> <<sub.args>>]

\* generate_contacts calling do_update whatever the shapes are.
generate_contacts_unguarded(ma, a, mb, b, prediction, id_alloc, manifold, found) ==
    do_update(ma, [a EXCEPT !.kind = "Capsule"] @@ [radius |-> 0],
              mb, [b EXCEPT !.kind = "Capsule"] @@ [radius |-> 0],
              prediction, id_alloc, manifold, found)

\* CapsuleCapsuleManifoldGenerator::generate_contacts.
generate_contacts(ma, a, mb, b, prediction, id_alloc, manifold, found) ==
    IF a.kind = "Capsule" /\ b.kind = "Capsule"
    THEN do_update(ma, a, mb, b, prediction, id_alloc, manifold, found)
    ELSE [returned |-> FALSE, manifold |-> manifold, id_alloc |-> id_alloc,
          prediction |-> prediction, sub_calls |-> <<>>]

\* The pairs of objects the generator is called for, one manifold each.
PairIds == {1, 2}

GeneratorWorld_new ==
    [id_alloc |-> IdAllocator_new,
     manifolds |-> [p \in PairIds |-> ContactManifold_new],
     call |-> [name |-> "new"],
     returned |-> FALSE,
     prediction |-> ContactPrediction(0),
     sub_calls |-> <<>>]

InitGenerator == gen = GeneratorWorld_new

\* No function of util or utils was called.
NoUtility == [name |-> "none"]

InitUtilities == util = NoUtility

simplexVars == <<vs, vop, vret>>

InitCK ==
    /\ ck = new
    /\ op = <<"new">>
    /\ ret = NoCall
    /\ given1 = "Point"
    /\ given2 = "Point"

Transform1 ==
    \E m \in BakeIsos :
        /\ ck' = transform1(ck, m)
        /\ op' = <<"transform1", m>>
        /\ ret' = NoCall
        /\ UNCHANGED <<given1, given2, simplexVars, prox, gen, util>>

Transform2 ==
    \E m \in BakeIsos :
        /\ ck' = transform2(ck, m)
        /\ op' = <<"transform2", m>>
        /\ ret' = NoCall
        /\ UNCHANGED <<given1, given2, simplexVars, prox, gen, util>>

SetDilation1 ==
    \E margin \in Margins :
        /\ ck' = set_dilation1(ck, margin)
        /\ op' = <<"set_dilation1">>
        /\ ret' = NoCall
        /\ UNCHANGED <<given1, given2, simplexVars, prox, gen, util>>

SetDilation2 ==
    \E margin \in Margins :
        /\ ck' = set_dilation2(ck, margin)
        /\ op' = <<"set_dilation2">>
        /\ ret' = NoCall
        /\ UNCHANGED <<given1, given2, simplexVars, prox, gen, util>>

SetPlane1 ==
    \E pt \in Anchors, normal \in Normals :
        /\ ck' = set_plane1(ck, "Face", pt, normal)
        /\ op' = <<"set_plane1">>
        /\ given1' = "Plane"
        /\ ret' = NoCall
        /\ UNCHANGED <<given2, simplexVars, prox, gen, util>>

SetPlane2 ==
    \E pt \in Anchors, normal \in Normals :
        /\ ck' = set_plane2(ck, "Face", pt, normal)
        /\ op' = <<"set_plane2">>
        /\ given2' = "Plane"
        /\ ret' = NoCall
        /\ UNCHANGED <<given1, simplexVars, prox, gen, util>>

SetLine1 ==
    \E pt \in Anchors, line \in Lines :
        /\ ck' = set_line1(ck, "Edge", pt, line[1], line[2])
        /\ op' = <<"set_line1">>
        /\ given1' = "Line"
        /\ ret' = NoCall
        /\ UNCHANGED <<given2, simplexVars, prox, gen, util>>

SetLine2 ==
    \E pt \in Anchors, line \in Lines :
        /\ ck' = set_line2(ck, "Edge", pt, line[1], line[2])
        /\ op' = <<"set_line2">>
        /\ given2' = "Line"
        /\ ret' = NoCall
        /\ UNCHANGED <<given1, simplexVars, prox, gen, util>>

SetPoint1 ==
    \E pt \in Anchors, normals \in Cones :
        /\ ck' = set_point1(ck, "Vertex", pt, normals)
        /\ op' = <<"set_point1">>
        /\ given1' = "Point"
        /\ ret' = NoCall
        /\ UNCHANGED <<given2, simplexVars, prox, gen, util>>

SetPoint2 ==
    \E pt \in Anchors, normals \in Cones :
        /\ ck' = set_point2(ck, "Vertex", pt, normals)
        /\ op' = <<"set_point2">>
        /\ given2' = "Point"
        /\ ret' = NoCall
        /\ UNCHANGED <<given1, simplexVars, prox, gen, util>>

ContactWith(isos) ==
    \E m1 \in isos, m2 \in isos, default_normal1 \in DefaultNormals :
        /\ ret' = contact(ck, m1, m2, default_normal1)
        /\ op' = <<"contact", m1, m2, default_normal1>>
        /\ UNCHANGED <<ck, given1, given2, simplexVars, prox, gen, util>>

ContactCall == ContactWith(BakeIsos)

InitSimplexIdle ==
    /\ vs = 0
    /\ vop = <<"idle">>
    /\ vret = 0

Init == InitCK /\ InitSimplexIdle /\ InitProximity /\ InitGenerator /\ InitUtilities

Next ==
    \/ Transform1
    \/ Transform2
    \/ SetDilation1
    \/ SetDilation2
    \/ SetPlane1
    \/ SetPlane2
    \/ SetLine1
    \/ SetLine2
    \/ SetPoint1
    \/ SetPoint2
    \/ ContactCall

Spec == Init /\ [][Next]_vars

(***************************************************************************)
(* Claims on the state machine (specification Spec).                       *)
(***************************************************************************)
IsSet1(o) == o[1] \in {"set_point1", "set_line1", "set_plane1"}

IsSet2(o) == o[1] \in {"set_point2", "set_line2", "set_plane2"}

InvalidTags == {"PlanePlane", "PlaneLine", "LinePlane"}

\* Transforms given to contact() by the claims that quantify over them.
Isos == {Iso(r, t) : r \in {RotId, RotZ90}, t \in {Zero3, <<1, 2, 0>>}}

C1_RolesAsGiven ==
    /\ Role1(ck.variant) = given1
    /\ Role2(ck.variant) = given2

C1_Step ==
    /\ IsSet1(op') =>
         /\ Role2(ck'.variant) = Role2(ck.variant)
         /\ Dir2(ck'.variant) = Dir2(ck.variant)
    /\ IsSet2(op') =>
         /\ Role1(ck'.variant) = Role1(ck.variant)
         /\ Dir1(ck'.variant) = Dir1(ck.variant)
    /\ (~IsSet1(op') /\ ~IsSet2(op')) =>
         /\ Role1(ck'.variant) = Role1(ck.variant)
         /\ Role2(ck'.variant) = Role2(ck.variant)

\* C1: the kinematic starts as Point x Point; in every state the role of each
\* side is the one given by the most recent set_* call on that side (Point if
\* none); a set_* call on one side keeps the other side's role and stored line
\* direction, and no other operation changes a role.
C1_Roles == ck.variant = <<"PointPoint">> /\ []C1_RolesAsGiven /\ [][C1_Step]_vars

\* set_plane1 has just acted on a variant whose side 2 is a line that an earlier
\* transform2 had turned.
C1_Witness ==
    /\ op = <<"set_plane1">>
    /\ ck.variant = <<"PlaneLine", Ey>>
    /\ given1 = "Plane"
    /\ given2 = "Line"

Side2Same(a, b) ==
    /\ b.feature2 = a.feature2
    /\ b.local2 = a.local2
    /\ b.normals2 = a.normals2
    /\ Dir2(b.variant) = Dir2(a.variant)

Side1Same(a, b) ==
    /\ b.feature1 = a.feature1
    /\ b.local1 = a.local1
    /\ b.normals1 = a.normals1
    /\ Dir1(b.variant) = Dir1(a.variant)

MarginsSame(a, b) == b.margin1 = a.margin1 /\ b.margin2 = a.margin2

RolesSame(a, b) ==
    /\ Role1(b.variant) = Role1(a.variant)
    /\ Role2(b.variant) = Role2(a.variant)

C2_Step ==
    /\ (IsSet1(op') \/ op'[1] = "transform1") => Side2Same(ck, ck') /\ MarginsSame(ck, ck')
    /\ (IsSet2(op') \/ op'[1] = "transform2") => Side1Same(ck, ck') /\ MarginsSame(ck, ck')
    /\ op'[1] = "transform1" =>
         /\ ck'.feature1 = ck.feature1
         /\ RolesSame(ck, ck')
         /\ Role1(ck.variant) # "Line" => ck'.variant = ck.variant
    /\ op'[1] = "transform2" =>
         /\ ck'.feature2 = ck.feature2
         /\ RolesSame(ck, ck')
         /\ Role2(ck.variant) # "Line" => ck'.variant = ck.variant

\* C2: side isolation.  set_point1, set_line1, set_plane1 and transform1 leave
\* side 2's feature id, anchor, cone and line direction and both margins
\* unchanged, and symmetrically for side 2; transformK changes nothing but
\* side K's anchor, cone and, if side K is a line, its direction.
C2_SideIsolation == [][C2_Step]_vars

\* transform1 has just turned side 1 of a Line x Line variant whose side 2
\* holds a feature, a cone and a margin of its own.
C2_Witness ==
    /\ op = <<"transform1", Turn>>
    /\ ck.variant = <<"LineLine", Ey, Ex>>
    /\ ck.normals2 = <<Ey>>
    /\ ck.local2 = <<1, 1, 0>>
    /\ ck.margin2 = 1
    /\ ck.margin1 = 0

C3_Outcome ==
    \A m1 \in Isos, m2 \in Isos, dn \in {Ex, Ey} :
        LET r == contact(ck, m1, m2, dn)
        IN  IF ck.variant[1] \in InvalidTags THEN r.kind = "None" ELSE r.kind = "Some"

C3_Step == op'[1] = "contact" => (ck' = ck /\ ret' = contact(ck, op'[2], op'[3], op'[4]))

\* C3: contact() returns no contact exactly in the variants Plane x Plane,
\* Plane x Line and Line x Plane, returns a contact in the six others for every
\* pair of transforms and every anchor placement, and leaves the kinematic as
\* it was.
C3_NoContactIffInvalid == []C3_Outcome /\ [][C3_Step]_vars

\* contact() has just returned a contact for two parallel lines through
\* the same point (a Line x Line variant with zero separation).
C3_Witness ==
    /\ op[1] = "contact"
    /\ ck.variant[1] = "LineLine"
    /\ ck.variant[2] = ck.variant[3]
    /\ ret.kind = "Some"
    /\ ret.world1 = ret.world2

\* contact() has just returned no contact for an invalid variant.
C3_WitnessNone ==
    /\ op[1] = "contact"
    /\ ck.variant[1] = "PlaneLine"
    /\ ret.kind = "None"

C9_Step ==
    (op' = <<"transform1", identity>> \/ op' = <<"transform2", identity>>) =>
        /\ ck' = ck
        /\ \A m1 \in BakeIsos, m2 \in BakeIsos, dn \in DefaultNormals :
               contact(ck', m1, m2, dn) = contact(ck, m1, m2, dn)

\* C9: transform1 and transform2 with the identity transform leave the whole
\* kinematic (anchors, cones, line directions, roles, feature ids, margins)
\* as it was, in every variant, so contact() returns what it returned before.
C9_IdentityTransform == [][C9_Step]_vars

\* transform2 with the identity has just acted on a Line x Line variant with
\* two different anchors and a non-empty cone on side 2.
C9_Witness ==
    /\ op = <<"transform2", identity>>
    /\ ck.variant[1] = "LineLine"
    /\ ck.local1 # ck.local2
    /\ ck.normals2 # <<>>

(***************************************************************************)
(* contact() as a function: a kinematic set up by one set_* call per side  *)
(* and the two set_dilation calls, then evaluated (specification           *)
(* SpecContact).                                                           *)
(***************************************************************************)
SeedAnchors == {Zero3, <<2, 1, 0>>}

SeedCones == {<<>>, <<Ex>>, <<VNeg(Ex)>>}

SeedNormals == {Ex, Ey}

Seeds1 ==
    {set_point1(new, "Vertex", a, c) : a \in SeedAnchors, c \in SeedCones}
    \cup {set_line1(new, "Edge", a, l[1], l[2]) : a \in SeedAnchors, l \in Lines}
    \cup {set_plane1(new, "Face", a, n) : a \in SeedAnchors, n \in SeedNormals}

Seeds12 ==
    UNION {{set_point2(k, "Vertex", a, c) : a \in SeedAnchors, c \in SeedCones}
           \cup {set_line2(k, "Edge", a, l[1], l[2]) : a \in SeedAnchors, l \in Lines}
           \cup {set_plane2(k, "Face", a, n) : a \in SeedAnchors, n \in SeedNormals}
           : k \in Seeds1}

Seeds == {set_dilation2(set_dilation1(k, x), y) : k \in Seeds12, x \in Margins, y \in Margins}

\* Transforms given to contact().
EvalIsos == {Iso(r, t) : r \in {RotId, RotZ90, RotX90}, t \in {Zero3, Ex, <<2, 1, 0>>}}

InitContact ==
    /\ ck \in Seeds
    /\ op = <<"seed">>
    /\ ret = NoCall
    /\ given1 = Role1(ck.variant)
    /\ given2 = Role2(ck.variant)
    /\ InitSimplexIdle
    /\ InitProximity
    /\ InitGenerator
    /\ InitUtilities

ContactEval == op = <<"seed">> /\ ContactWith(EvalIsos)

SpecContact == InitContact /\ [][ContactEval]_vars

(***************************************************************************)
(* Claims on contact() (specification SpecContact).  After a call, op      *)
(* holds its arguments and ret its result.                                 *)
(***************************************************************************)
Called == op[1] = "contact"

\* The world positions of the two anchors and of the two line directions.
W1 == transform_point(op[2], ck.local1)

W2 == transform_point(op[3], ck.local2)

WDir1 == transform_unit_vector(op[2], Dir1(ck.variant))

WDir2 == transform_unit_vector(op[3], Dir2(ck.variant))

\* The part of p - o perpendicular to the unit direction d: the offset of p
\* from the line through o along d.
PerpOffset(o, d, p) == VSub(VSub(p, o), VScale(d, Dot(d, VSub(p, o))))

ZeroMargins == ck.margin1 = 0 /\ ck.margin2 = 0

ZeroSeparation ==
    CASE ck.variant[1] = "PointPoint" -> W1 = W2
      [] ck.variant[1] = "LinePoint" -> PerpOffset(W1, WDir1, W2) = Zero3
      [] ck.variant[1] = "PointLine" -> PerpOffset(W2, WDir2, W1) = Zero3
      [] ck.variant[1] = "LineLine" ->
           LET pts == line_against_line(W1, WDir1, W2, WDir2) IN pts[1] = pts[2]
      [] OTHER -> FALSE

\* C4: with zero separation in a Point x Point, Line x Point, Point x Line or
\* Line x Line evaluation, contact() returns a contact whose normal is the
\* default normal given by the caller and whose depth before the margins is 0,
\* for every pair of transforms.
C4_DegenerateFallback ==
    (Called /\ ZeroSeparation) =>
        /\ ret.kind = "Some"
        /\ ret.normal = op[4]
        /\ ret.depth = RInt(ck.margin1 + ck.margin2)

PointPointCase == Called /\ ck.variant[1] = "PointPoint" /\ ZeroMargins

\* The direction n of W2 - W1 passes the cone test of side 1 or of side 2, each
\* taken in that side's local frame.
InEitherCone ==
    LET n == Primitive(VSub(W2, W1))
    IN  \/ polar_contains_dir(ck.normals1, inverse_transform_unit_vector(op[2], n))
        \/ polar_contains_dir(ck.normals2, inverse_transform_unit_vector(op[3], VNeg(n)))

C5_Result ==
    LET n == Primitive(VSub(W2, W1))
        dsq == NormSq(VSub(W2, W1))
    IN  /\ ret.kind = "Some"
        /\ IF InEitherCone
           THEN ret.normal = VNeg(n) /\ ret.depth = Root(1, dsq)
           ELSE ret.normal = n /\ ret.depth = Root(-1, dsq)

\* C5 as claimed: for Point x Point kinematics with zero margins and distinct
\* world points p1 # p2, contact() returns normal -n and depth +d when the unit
\* direction n of p2 - p1 passes either side's cone test in that side's local
\* frame, and normal n and depth -d otherwise.
C5_AnyDistinctPoints == (PointPointCase /\ W1 # W2) => C5_Result

\* C5 as amended: the same for world points farther apart than the tolerance
\* default_epsilon().
C5_BeyondEpsilon ==
    (PointPointCase /\ NormSq(VSub(W2, W1)) > default_epsilon_sq) => C5_Result

\* A Point x Point evaluation under a rotated side 2 where the direction fails
\* both cone tests: a separation.
C5_Witness ==
    /\ PointPointCase
    /\ NormSq(VSub(W2, W1)) > default_epsilon_sq
    /\ op[3].rot # RotId
    /\ ~InEitherCone
    /\ ret.depth.rat < 0

\* A Point x Point evaluation under a rotated side 1 where the direction passes
\* side 1's cone test only: a penetration.
C5_WitnessPenetration ==
    /\ PointPointCase
    /\ NormSq(VSub(W2, W1)) > default_epsilon_sq
    /\ op[2].rot # RotId
    /\ ck.normals1 # <<>>
    /\ ck.normals2 # <<>>
    /\ InEitherCone
    /\ ret.normal = VNeg(Primitive(VSub(W2, W1)))

\* What contact() returns for the same kinematic and arguments with both
\* margins at 0, and with margin1 or margin2 raised by d.
Raw == contact(set_dilation2(set_dilation1(ck, 0), 0), op[2], op[3], op[4])

Raised1(d) == contact(set_dilation1(ck, ck.margin1 + d), op[2], op[3], op[4])

Raised2(d) == contact(set_dilation2(ck, ck.margin2 + d), op[2], op[3], op[4])

\* C6: in every valid variant the depth is the raw depth plus both margins,
\* world point 1 is moved by +margin1 and world point 2 by -margin2 along the
\* normal; raising one side's margin by d raises the depth by d, moves that
\* side's world point by d along the normal and changes nothing else.
C6_Margins ==
    (Called /\ ret.kind = "Some") =>
        /\ Raw.kind = "Some"
        /\ ret.normal = Raw.normal
        /\ ret.depth = RAddInt(Raw.depth, ck.margin1 + ck.margin2)
        /\ ret.world1 = Along(Raw.world1.base, ret.normal, ck.margin1)
        /\ ret.world2 = Along(Raw.world2.base, ret.normal, -ck.margin2)
        /\ \A d \in 1..MaxMargin :
              /\ Raised1(d) = [ret EXCEPT
                                 !.depth = RAddInt(ret.depth, d),
                                 !.world1 = Along(Raw.world1.base, ret.normal, ck.margin1 + d)]
              /\ Raised2(d) = [ret EXCEPT
                                 !.depth = RAddInt(ret.depth, d),
                                 !.world2 = Along(Raw.world2.base, ret.normal, -(ck.margin2 + d))]

\* A Line x Line evaluation with both margins set, whose normal is along no
\* axis.
C6_Witness ==
    /\ Called
    /\ ck.variant[1] = "LineLine"
    /\ ck.margin1 = 1
    /\ ck.margin2 = 1
    /\ ret.kind = "Some"
    /\ ret.world2.k # 0

\* The world normal of the plane of side 1 / side 2.
WNormal1 == transform_unit_vector(op[2], ck.normals1[1])

WNormal2 == transform_unit_vector(op[3], ck.normals2[1])

\* f is the foot of the perpendicular from p onto the plane through o with
\* unit normal n.
IsFoot(f, p, o, n) ==
    /\ Dot(n, VSub(f, o)) = 0
    /\ VSub(f, p) = VScale(n, Dot(n, VSub(f, p)))

\* C7: with zero margins, Plane x Point gives world point 2 = m2(local2), world
\* point 1 = the foot of the perpendicular from world point 2 onto side 1's
\* plane, normal = that plane's world normal N and depth = -N.(world2 -
\* m1(local1)); Point x Plane is the mirror image, with the negated world normal
\* of side 2's plane.
C7_PlaneFoot ==
    /\ (Called /\ ZeroMargins /\ ck.variant[1] = "PlanePoint") =>
         /\ ret.kind = "Some"
         /\ ret.world2 = Along(W2, Zero3, 0)
         /\ IsFoot(ret.world1.base, W2, W1, WNormal1)
         /\ ret.world1.k = 0
         /\ ret.normal = WNormal1
         /\ ret.depth = RInt(-Dot(WNormal1, VSub(W2, W1)))
    /\ (Called /\ ZeroMargins /\ ck.variant[1] = "PointPlane") =>
         /\ ret.kind = "Some"
         /\ ret.world1 = Along(W1, Zero3, 0)
         /\ IsFoot(ret.world2.base, W1, W2, WNormal2)
         /\ ret.world2.k = 0
         /\ ret.normal = VNeg(WNormal2)
         /\ ret.depth = RInt(-Dot(WNormal2, VSub(W1, W2)))

\* A Point x Plane evaluation under a rotated side 2, the point off the plane.
C7_Witness ==
    /\ Called
    /\ ZeroMargins
    /\ ck.variant[1] = "PointPlane"
    /\ op[3].rot # RotId
    /\ WNormal2 # ck.normals2[1]
    /\ ret.depth.rat > 0

\* A Plane x Point evaluation under a rotated side 1, the point off the plane.
C7_WitnessPlanePoint ==
    /\ Called
    /\ ZeroMargins
    /\ ck.variant[1] = "PlanePoint"
    /\ WNormal1 # ck.normals1[1]
    /\ ret.depth.rat < 0

\* C8: in the Line x Point and Point x Line variants, for every pair of rigid
\* transforms, the contact point on the line side is the orthogonal projection
\* of the point feature's world position onto the world line: the vector
\* between the two returned points is perpendicular to the world direction of
\* the line and, with zero margins, the squared depth is the squared
\* point-to-line distance.
C8_LineProjection ==
    /\ (Called /\ ZeroMargins /\ ck.variant[1] = "LinePoint") =>
         /\ ret.kind = "Some"
         /\ Dot(VSub(ret.world2.base, ret.world1.base), WDir1) = 0
         /\ RSquare(ret.depth) = NormSq(PerpOffset(W1, WDir1, W2))
    /\ (Called /\ ZeroMargins /\ ck.variant[1] = "PointLine") =>
         /\ ret.kind = "Some"
         /\ Dot(VSub(ret.world2.base, ret.world1.base), WDir2) = 0
         /\ RSquare(ret.depth) = NormSq(PerpOffset(W2, WDir2, W1))


(***************************************************************************)
(* VoronoiSimplex.  Arrays keep the indices of the source, from 0.  A      *)
(* CSOPoint is kept as its point.  status is "panic" once an operation has *)
(* aborted.                                                                *)
(***************************************************************************)
Cross(a, b) ==
    <<a[2] * b[3] - a[3] * b[2], a[3] * b[1] - a[1] * b[3], a[1] * b[2] - a[2] * b[1]>>

\* gjk::eps_tol(), in the unit of length of the simplex points.
eps_tol == 2

Array3(a, b, c) == [i \in 0..2 |-> CASE i = 0 -> a [] i = 1 -> b [] OTHER -> c]

VoronoiSimplex_new ==
    [prev_vertices |-> [i \in 0..3 |-> i],
     prev_proj |-> [i \in 0..2 |-> 0],
     prev_dim |-> 0,
     vertices |-> [i \in 0..3 |-> Zero3],
     proj |-> [i \in 0..2 |-> 0],
     dim |-> 0,
     status |-> "ok"]

\* <[T]>::swap on a function.
SwapAt(f, i1, i2) == [f EXCEPT ![i1] = f[i2], ![i2] = f[i1]]

\* VoronoiSimplex::swap: prev_proj holds three entries, and swapping its index
\* 3 aborts after the two other arrays were swapped.
swap(s, i1, i2) ==
    LET s1 == [s EXCEPT !.vertices = SwapAt(s.vertices, i1, i2),
                        !.prev_vertices = SwapAt(s.prev_vertices, i1, i2)]
    IN  IF i1 > 2 \/ i2 > 2 THEN [s1 EXCEPT !.status = "panic"]
        ELSE [s1 EXCEPT !.prev_proj = SwapAt(s.prev_proj, i1, i2)]

reset(s, pt) ==
    [s EXCEPT !.dim = 0, !.prev_dim = 0, !.vertices = [s.vertices EXCEPT ![0] = pt]]

\* The test of add_point, with the test of dimension 0 at every dimension.
add_point_rejects_coincident_only(s, pt) ==
    NormSq(VSub(s.vertices[0], pt)) < eps_tol

\* The test of add_point on the new point: is it, within eps_tol, the vertex
\* (dim 0), on the line of the segment (dim 1), in the plane of the triangle
\* (dim 2)?  The normal of a flat triangle normalises to NaN, which compares
\* false.
add_point_rejects(s, pt) ==
    LET ab == VSub(s.vertices[1], s.vertices[0])
        n == Cross(ab, VSub(s.vertices[2], s.vertices[0]))
    IN  CASE s.dim = 0 -> NormSq(VSub(s.vertices[0], pt)) < eps_tol
          [] s.dim = 1 -> NormSq(Cross(ab, VSub(pt, s.vertices[0]))) < eps_tol
          [] s.dim = 2 ->
               LET d == Dot(n, VSub(pt, s.vertices[0]))
               IN  n # Zero3 /\ d * d < eps_tol * eps_tol * NormSq(n)
          [] OTHER -> FALSE

\* add_point whose match on the dimension has no unreachable!() arm.
add_point_without_abort(s, pt) ==
    LET s1 == [s EXCEPT !.prev_dim = s.dim,
                        !.prev_proj = s.proj,
                        !.prev_vertices = [i \in 0..3 |-> i]]
    IN  IF add_point_rejects(s, pt) THEN <<s1, FALSE>>
        ELSE <<[s1 EXCEPT !.dim = s.dim + 1,
                          !.vertices = [i \in 0..3 |-> IF i = s.dim + 1 THEN pt
                                                       ELSE s.vertices[i]]], TRUE>>

\* add_point: the new simplex and the returned flag.
add_point(s, pt) ==
    LET s1 == [s EXCEPT !.prev_dim = s.dim,
                        !.prev_proj = s.proj,
                        !.prev_vertices = [i \in 0..3 |-> i]]
    IN  IF s.dim > 2 THEN <<[s1 EXCEPT !.status = "panic"], FALSE>>
        ELSE IF add_point_rejects(s, pt) THEN <<s1, FALSE>>
        ELSE <<[s1 EXCEPT !.dim = s.dim + 1,
                          !.vertices = [s.vertices EXCEPT ![s.dim + 1] = pt]], TRUE>>

\* What project_point_with_location reports for the origin: <<"OnVertex", i>>,
\* <<"OnEdge", i, coords>>, <<"OnFace", i, coords>> (i = 0 for a triangle's
\* only face) or <<"OnSolid">>, the coordinates in parts of Den.
EdgeCoords == {<<2, Den - 2>>}

FaceCoords == {<<1, 2, Den - 3>>}

Locations(dim) ==
    CASE dim = 1 -> {<<"OnVertex", i>> : i \in 0..1} \cup {<<"OnEdge", 0, c>> : c \in EdgeCoords}
      [] dim = 2 -> {<<"OnVertex", i>> : i \in 0..2}
                    \cup {<<"OnEdge", i, c>> : i \in 0..2, c \in EdgeCoords}
                    \cup {<<"OnFace", 0, c>> : c \in FaceCoords}
      [] dim = 3 -> {<<"OnVertex", i>> : i \in 0..3}
                    \cup {<<"OnEdge", i, c>> : i \in 0..5, c \in EdgeCoords}
                    \cup {<<"OnFace", i, c>> : i \in 0..3, c \in FaceCoords}
                    \cup {<<"OnSolid">>}
      [] OTHER -> {<<"OnVertex", 0>>}

\* The vertices (slots of the simplex) of edge i and face i of a segment,
\* triangle or tetrahedron, in the order of the reported coordinates.
EdgeSlots(dim, i) ==
    IF dim = 3
    THEN CASE i = 0 -> <<0, 1>> [] i = 1 -> <<0, 2>> [] i = 2 -> <<0, 3>>
           [] i = 3 -> <<1, 2>> [] i = 4 -> <<1, 3>> [] OTHER -> <<2, 3>>
    ELSE CASE i = 0 -> <<0, 1>> [] i = 1 -> <<1, 2>> [] OTHER -> <<0, 2>>

FaceSlots(dim, i) ==
    IF dim = 3
    THEN CASE i = 0 -> <<0, 1, 2>> [] i = 1 -> <<0, 1, 3>>
           [] i = 2 -> <<0, 2, 3>> [] OTHER -> <<1, 2, 3>>
    ELSE <<0, 1, 2>>

\* The projection of the origin, times Den: the point with the reported
\* coordinates on the reported feature.
ProjPoint(s, loc) ==
    CASE loc[1] = "OnVertex" -> VScale(s.vertices[loc[2]], Den)
      [] loc[1] = "OnEdge" ->
           LET e == EdgeSlots(s.dim, loc[2])
           IN  VAdd(VScale(s.vertices[e[1]], loc[3][1]), VScale(s.vertices[e[2]], loc[3][2]))
      [] loc[1] = "OnFace" ->
           LET f == FaceSlots(s.dim, loc[2])
           IN  VAdd(VAdd(VScale(s.vertices[f[1]], loc[3][1]), VScale(s.vertices[f[2]], loc[3][2])),
                    VScale(s.vertices[f[3]], loc[3][3]))
      [] OTHER -> Zero3

\* proj[0] = N::one(); dim = 0, unless the swap before it aborted.
ToVertex(s1) ==
    IF s1.status = "panic" THEN s1
    ELSE [s1 EXCEPT !.proj = [s1.proj EXCEPT ![0] = Den], !.dim = 0]

\* proj[0] = a; proj[1] = b; dim = 1, unless a swap before it aborted.
ToEdge(s1, a, b) ==
    IF s1.status = "panic" THEN s1
    ELSE [s1 EXCEPT !.proj = [s1.proj EXCEPT ![0] = a, ![1] = b], !.dim = 1]

reduce_segment(s, loc) ==
    CASE loc = <<"OnVertex", 0>> -> ToVertex(s)
      [] loc = <<"OnVertex", 1>> -> ToVertex(swap(s, 0, 1))
      [] OTHER -> s

reduce_triangle(s, loc) ==
    CASE loc[1] = "OnVertex" -> ToVertex(swap(s, 0, loc[2]))
      [] loc[1] = "OnEdge" /\ loc[2] = 0 -> ToEdge(s, loc[3][1], loc[3][2])
      [] loc[1] = "OnEdge" /\ loc[2] = 1 -> ToEdge(swap(s, 0, 2), loc[3][2], loc[3][1])
      [] loc[1] = "OnEdge" /\ loc[2] = 2 -> ToEdge(swap(s, 1, 2), loc[3][1], loc[3][2])
      [] loc[1] = "OnFace" -> [s EXCEPT !.proj = Array3(loc[3][1], loc[3][2], loc[3][3])]
      [] OTHER -> s

\* The swaps of the tetrahedron's edge table.
tetrahedron_edge_swap(s, i) ==
    CASE i = 0 -> s
      [] i = 1 -> swap(s, 1, 2)
      [] i = 2 -> swap(s, 1, 3)
      [] i = 3 -> swap(s, 0, 2)
      [] i = 4 -> swap(s, 0, 3)
      [] OTHER -> LET s1 == swap(s, 0, 2) IN IF s1.status = "panic" THEN s1 ELSE swap(s1, 1, 3)

reduce_tetrahedron(s, loc) ==
    CASE loc[1] = "OnVertex" -> ToVertex(swap(s, 0, loc[2]))
      [] loc[1] = "OnEdge" ->
           IF loc[2] \in {3, 4}
           THEN ToEdge(tetrahedron_edge_swap(s, loc[2]), loc[3][2], loc[3][1])
           ELSE ToEdge(tetrahedron_edge_swap(s, loc[2]), loc[3][1], loc[3][2])
      [] loc[1] = "OnFace" /\ loc[2] = 0 ->
           [s EXCEPT !.proj = Array3(loc[3][1], loc[3][2], loc[3][3]), !.dim = 2]
      [] loc[1] = "OnFace" /\ loc[2] = 1 ->
           [s EXCEPT !.vertices = [s.vertices EXCEPT ![2] = s.vertices[3]],
                     !.proj = Array3(loc[3][1], loc[3][2], loc[3][3]), !.dim = 2]
      [] loc[1] = "OnFace" /\ loc[2] = 2 ->
           [s EXCEPT !.vertices = [s.vertices EXCEPT ![1] = s.vertices[3]],
                     !.proj = Array3(loc[3][1], loc[3][3], loc[3][2]), !.dim = 2]
      [] loc[1] = "OnFace" /\ loc[2] = 3 ->
           [s EXCEPT !.vertices = [s.vertices EXCEPT ![0] = s.vertices[3]],
                     !.proj = Array3(loc[3][3], loc[3][1], loc[3][2]), !.dim = 2]
      [] OTHER -> s

\* project_origin_and_reduce, given what the projection reported: the new
\* simplex.
project_origin_and_reduce(s, loc) ==
    IF s.dim = 0 THEN [s EXCEPT !.proj = [s.proj EXCEPT ![0] = Den]]
    ELSE IF s.dim = 1 THEN reduce_segment(s, loc)
    ELSE IF s.dim = 2 THEN reduce_triangle(s, loc)
    ELSE reduce_tetrahedron(s, loc)

(***************************************************************************)
(* The indexed accessors of VoronoiSimplex: the value, or Panic when the   *)
(* assertion fails or the array is indexed out of its range.               *)
(***************************************************************************)
Value(x) == [kind |-> "Value", value |-> x]

proj_coord(s, i) ==
    IF ~(i <= s.dim) THEN Panic
    ELSE IF i \notin DOMAIN s.proj THEN Panic
    ELSE Value(s.proj[i])

point(s, i) ==
    IF ~(i <= s.dim) THEN Panic
    ELSE IF i \notin DOMAIN s.vertices THEN Panic
    ELSE Value(s.vertices[i])

prev_proj_coord(s, i) ==
    IF ~(i <= s.dim) THEN Panic
    ELSE IF i \notin DOMAIN s.prev_proj THEN Panic
    ELSE Value(s.prev_proj[i])

prev_point(s, i) ==
    IF ~(i <= s.prev_dim) THEN Panic
    ELSE IF i \notin DOMAIN s.prev_vertices THEN Panic
    ELSE Value(s.vertices[s.prev_vertices[i]])

\* The point project_origin_and_reduce returns (times Den).
project_origin_and_reduce_point(s, loc) ==
    IF s.dim = 0 THEN VScale(s.vertices[0], Den) ELSE ProjPoint(s, loc)

\* project_origin that returns vertices[0] at every dimension.
project_origin_first_vertex(s, loc) ==
    <<s, VScale(s.vertices[0], Den)>>

\* project_origin, given what the projection reported: the simplex after
\* the call and the returned point (times Den).
project_origin(s, loc) ==
    IF s.dim = 0 THEN <<s, VScale(s.vertices[0], Den)>>
    ELSE <<s, ProjPoint(s, loc)>>

RECURSIVE contains_point_from(_, _, _)
\* The loop of contains_point, from index i.
contains_point_from(s, pt, i) ==
    IF i >= s.dim + 1 THEN FALSE
    ELSE IF s.vertices[i] = pt THEN TRUE
    ELSE contains_point_from(s, pt, i + 1)

\* contains_point that looks at the four slots.
contains_point_all_slots(s, pt) == \E i \in 0..3 : s.vertices[i] = pt

contains_point(s, pt) == contains_point_from(s, pt, 0)

(***************************************************************************)
(* The VoronoiSimplex state machine (specification SpecSimplex).           *)
(***************************************************************************)
\* Support points given to reset and add_point.
SimplexPoints ==
    {Zero3, <<2, 0, 0>>, <<0, 2, 0>>, <<0, 0, 2>>, <<1, 0, 0>>}

NoValue == [kind |-> "none"]

InitSimplex ==
    /\ InitCK
    /\ InitProximity
    /\ InitGenerator
    /\ InitUtilities
    /\ vs = VoronoiSimplex_new
    /\ vop = <<"new">>
    /\ vret = NoValue

Reset ==
    \E pt \in SimplexPoints :
        /\ vs.status = "ok"
        /\ vs' = reset(vs, pt)
        /\ vop' = <<"reset", pt>>
        /\ vret' = NoValue
        /\ UNCHANGED <<ck, op, ret, given1, given2, prox, gen, util>>

AddPoint ==
    \E pt \in SimplexPoints :
        /\ vs.status = "ok"
        /\ vs' = add_point(vs, pt)[1]
        /\ vop' = <<"add_point", pt>>
        /\ vret' = IF vs'.status = "panic" THEN NoValue
                   ELSE [kind |-> "bool", value |-> add_point(vs, pt)[2]]
        /\ UNCHANGED <<ck, op, ret, given1, given2, prox, gen, util>>

ProjectOriginAndReduce ==
    \E loc \in Locations(vs.dim) :
        /\ vs.status = "ok"
        /\ vs' = project_origin_and_reduce(vs, loc)
        /\ vop' = <<"project_origin_and_reduce", loc>>
        /\ vret' = IF vs'.status = "panic" THEN NoValue
                   ELSE [kind |-> "point", num |-> project_origin_and_reduce_point(vs, loc)]
        /\ UNCHANGED <<ck, op, ret, given1, given2, prox, gen, util>>

NextSimplex ==
    \/ Reset
    \/ AddPoint
    \/ ProjectOriginAndReduce

SpecSimplex == InitSimplex /\ [][NextSimplex]_vars

(***************************************************************************)
(* The read-only calls on a VoronoiSimplex (specification SpecQuery).  The *)
(* simplex is one that calls of reset, add_point and                       *)
(* project_origin_and_reduce have built; vop keeps the last of these calls *)
(* and the simplex before it, vret the read-only call and its result.      *)
(***************************************************************************)
\* Indices given to the accessors range over 0..MaxIndex.
MaxIndex == 4

History(before, call, after) == [before |-> before, call |-> call, s |-> after]

Usable(H) == {h \in H : h.s.status = "ok"}

AfterReset ==
    {History(VoronoiSimplex_new, <<"reset", pt>>, reset(VoronoiSimplex_new, pt)) :
        pt \in SimplexPoints}

AfterAddPoint(H) ==
    {History(h.s, <<"add_point", pt, add_point(h.s, pt)[2]>>, add_point(h.s, pt)[1]) :
        h \in {g \in Usable(H) : g.s.dim <= 2}, pt \in SimplexPoints}

AfterReduce(H) ==
    UNION {{History(h.s, <<"project_origin_and_reduce", loc>>,
                    project_origin_and_reduce(h.s, loc)) : loc \in Locations(h.s.dim)} :
           h \in Usable(H)}

Grown ==
    LET h1 == AfterAddPoint(AfterReset)
        h2 == AfterAddPoint(h1)
    IN  AfterReset \cup h1 \cup h2 \cup AfterAddPoint(h2)

Histories == Usable(Grown \cup AfterReduce(Grown))

Query(call, result) == [kind |-> "query", call |-> call, result |-> result]

InitQuery ==
    /\ InitCK
    /\ InitProximity
    /\ InitGenerator
    /\ InitUtilities
    /\ \E h \in Histories :
           /\ vs = h.s
           /\ vop = <<"built", h.call, h.before>>
    /\ vret = NoValue

Asked == vret = NoValue /\ UNCHANGED <<ck, op, ret, given1, given2, vop, prox, gen, util>>

ProjCoord ==
    \E i \in 0..MaxIndex :
        Asked /\ vs' = vs /\ vret' = Query(<<"proj_coord", i>>, proj_coord(vs, i))

PointAt ==
    \E i \in 0..MaxIndex :
        Asked /\ vs' = vs /\ vret' = Query(<<"point", i>>, point(vs, i))

PrevProjCoord ==
    \E i \in 0..MaxIndex :
        Asked /\ vs' = vs /\ vret' = Query(<<"prev_proj_coord", i>>, prev_proj_coord(vs, i))

PrevPoint ==
    \E i \in 0..MaxIndex :
        Asked /\ vs' = vs /\ vret' = Query(<<"prev_point", i>>, prev_point(vs, i))

ProjectOrigin ==
    \E loc \in Locations(vs.dim) :
        /\ Asked
        /\ vs' = project_origin(vs, loc)[1]
        /\ vret' = Query(<<"project_origin", loc>>, Value(project_origin(vs, loc)[2]))

ContainsPoint ==
    \E pt \in SimplexPoints :
        /\ Asked
        /\ vs' = vs
        /\ vret' = Query(<<"contains_point", pt>>, Value(contains_point(vs, pt)))

NextQuery ==
    \/ ProjCoord
    \/ PointAt
    \/ PrevProjCoord
    \/ PrevPoint
    \/ ProjectOrigin
    \/ ContainsPoint

SpecQuery == InitQuery /\ [][NextQuery]_vars

(***************************************************************************)
(* Claims on the VoronoiSimplex (specification SpecSimplex).               *)
(***************************************************************************)
VCalled(name) == vop[1] = name

C10_InRange ==
    /\ vs.dim \in 0..3
    /\ vs.prev_dim \in 0..3
    /\ DOMAIN vs.vertices = 0..3

C10_Step ==
    /\ (vop'[1] = "add_point" /\ vs.dim = 3) =>
           /\ vs'.status = "panic"
           /\ vs'.dim = 3
           /\ vs'.vertices = vs.vertices
    /\ vop'[1] = "project_origin_and_reduce" => vs'.dim <= vs.dim

\* C10: in every state reached by reset, add_point and
\* project_origin_and_reduce the dimension and the previous dimension are in
\* 0..3 and there are four vertex slots; add_point on a simplex of dimension
\* 3 aborts, leaving the dimension 3 and the vertices as they were; and
\* project_origin_and_reduce never increases the dimension.
C10_Dimension == []C10_InRange /\ [][C10_Step]_vars

\* add_point was called on a tetrahedron, and aborted.
C10_Witness == VCalled("add_point") /\ vs.status = "panic" /\ vs.dim = 3 /\ vs.prev_dim = 3

\* A tetrahedron was reduced to its face 3 (only a tetrahedron has one).
C10_WitnessReduced ==
    /\ VCalled("project_origin_and_reduce")
    /\ vop[2][1] = "OnFace"
    /\ vop[2][2] = 3
    /\ vs.dim = 2

Rejected == VCalled("add_point")' /\ vret' = [kind |-> "bool", value |-> FALSE]

Accepted == VCalled("add_point")' /\ vret' = [kind |-> "bool", value |-> TRUE]

\* C11: an add_point that returns false leaves the simplex as it was: the
\* dimension, the vertices, the coordinates, and the previous dimension,
\* previous ordering and previous coordinates.
C11_RejectedUnchanged == [][Rejected => vs' = vs]_vars

\* A step of add_point(pt) on a simplex of dimension 0, 1 or 2.
AddStep(pt) == vs.status = "ok" /\ vs.dim <= 2 /\ vop' = <<"add_point", pt>>

\* pt is the vertex (dim 0), on the line of the segment (dim 1), in the
\* plane of the triangle (dim 2).
AffinelyDependent(s, pt) ==
    LET a == s.vertices[0]
        b == s.vertices[1]
        c == s.vertices[2]
    IN  CASE s.dim = 0 -> pt = a
          [] s.dim = 1 -> Cross(VSub(b, a), VSub(pt, a)) = Zero3
          [] OTHER -> Dot(Cross(VSub(b, a), VSub(c, a)), VSub(pt, a)) = 0

\* The same within the tolerance: the squared distance to the vertex, the
\* squared area spanned with the segment, the distance to the plane of the
\* triangle are below eps_tol.
DependentWithinTolerance(s, pt) ==
    LET a == s.vertices[0]
        ab == VSub(s.vertices[1], a)
        n == Cross(ab, VSub(s.vertices[2], a))
        h == Dot(n, VSub(pt, a))
    IN  CASE s.dim = 0 -> NormSq(VSub(pt, a)) < eps_tol
          [] s.dim = 1 -> NormSq(Cross(ab, VSub(pt, a))) < eps_tol
          [] OTHER -> h * h < eps_tol * eps_tol * NormSq(n)

\* An accepted add_point raises the dimension by one, stores pt in the new
\* last slot and keeps the vertices of slots 0..old dimension.
AcceptedAppends(pt) ==
    Accepted =>
        /\ vs'.dim = vs.dim + 1
        /\ vs'.vertices[vs'.dim] = pt
        /\ \A i \in 0..vs.dim : vs'.vertices[i] = vs.vertices[i]

C12_ExactStep ==
    \A pt \in SimplexPoints :
        AddStep(pt) =>
            /\ Rejected <=> AffinelyDependent(vs, pt)
            /\ Accepted <=> ~AffinelyDependent(vs, pt)
            /\ AcceptedAppends(pt)

\* C12 as stated: add_point(p) at dimension 0, 1 or 2 returns false exactly
\* when p is affinely dependent on the vertices, and otherwise returns true,
\* raises the dimension by one, stores p last and keeps the other vertices.
C12_ExactDependence == [][C12_ExactStep]_vars

C12_ToleranceStep ==
    \A pt \in SimplexPoints :
        AddStep(pt) =>
            /\ Rejected <=> DependentWithinTolerance(vs, pt)
            /\ Accepted <=> ~DependentWithinTolerance(vs, pt)
            /\ AffinelyDependent(vs, pt) => Rejected
            /\ AcceptedAppends(pt)

\* C12, amended: add_point(p) at dimension 0, 1 or 2 returns false exactly
\* when p is affinely dependent on the vertices within the tolerance eps_tol
\* (so for every exactly dependent p), and otherwise returns true, raises the
\* dimension by one, stores p last and keeps the other vertices.
C12_WithinTolerance == [][C12_ToleranceStep]_vars

\* A triangle accepted a fourth point.
C12_Witness ==
    /\ VCalled("add_point")
    /\ vret = [kind |-> "bool", value |-> TRUE]
    /\ vs.dim = 3
    /\ vs.vertices[3] = vop[2]

\* A point near the vertex, not equal to it, was rejected at dimension 0.
C12_WitnessNear ==
    /\ VCalled("add_point")
    /\ vret = [kind |-> "bool", value |-> FALSE]
    /\ vs.dim = 0
    /\ vop[2] # vs.vertices[0]

\* A step of project_origin_and_reduce whose projection reported loc.
ReduceStep(loc) == vs.status = "ok" /\ vop' = <<"project_origin_and_reduce", loc>>

\* The slots of the vertices of the reported feature: one vertex, the two of
\* an edge, the three of a face, all of them for the interior.
FeatureSlots(dim, loc) ==
    CASE loc[1] = "OnVertex" -> {loc[2]}
      [] loc[1] = "OnEdge" /\ dim > 1 ->
           {EdgeSlots(dim, loc[2])[1], EdgeSlots(dim, loc[2])[2]}
      [] loc[1] = "OnFace" /\ dim > 2 ->
           {FaceSlots(dim, loc[2])[k] : k \in 1..3}
      [] OTHER -> 0..dim

VerticesAt(s, slots) == {s.vertices[i] : i \in slots}

C13_Step ==
    \A loc \in Locations(vs.dim) :
        (ReduceStep(loc) /\ vs.dim >= 1) =>
            /\ vs'.dim + 1 = Cardinality(FeatureSlots(vs.dim, loc))
            /\ VerticesAt(vs', 0..vs'.dim) = VerticesAt(vs, FeatureSlots(vs.dim, loc))
            /\ FeatureSlots(vs.dim, loc) = 0..vs.dim => vs'.vertices = vs.vertices

\* C13: after project_origin_and_reduce at dimension 1, 2 or 3, whatever
\* region was reported, the new dimension is that of the reported feature and
\* slots 0..new dimension hold exactly the vertices of that feature; for the
\* interior the dimension and all the vertices are kept.
C13_ReducesToFeature == [][C13_Step]_vars

RECURSIVE WeightedSum(_, _)
\* The sum over slots 0..k of proj[i] * vertices[i] (a point times Den).
WeightedSum(s, k) ==
    IF k = 0 THEN VScale(s.vertices[0], s.proj[0])
    ELSE VAdd(WeightedSum(s, k - 1), VScale(s.vertices[k], s.proj[k]))

RECURSIVE CoordSum(_, _)
CoordSum(s, k) == IF k = 0 THEN s.proj[0] ELSE CoordSum(s, k - 1) + s.proj[k]

\* The coordinates of slots 0..dim are barycentric coordinates of point pt
\* (times Den) with respect to the vertices of slots 0..dim.
IsBarycentric(s, pt) ==
    /\ \A i \in 0..s.dim : s.proj[i] >= 0
    /\ CoordSum(s, s.dim) = Den
    /\ WeightedSum(s, s.dim) = pt

Returned == VCalled("project_origin_and_reduce")' /\ vs'.status = "ok"

C14_Step == (Returned /\ vs'.dim <= 2) => IsBarycentric(vs', vret'.num)

\* C14: after every project_origin_and_reduce that leaves dimension k <= 2,
\* the coordinates of slots 0..k are non-negative, sum to one and are the
\* barycentric coordinates of the returned point with respect to the
\* vertices now in slots 0..k.
C14_Barycentric == [][C14_Step]_vars

C15_Step ==
    Returned =>
        /\ vs'.prev_dim = vs.dim
        /\ \A i \in 0..2 : i <= vs.dim => vs'.prev_proj[i] = vs.proj[i]

\* C15: after each project_origin_and_reduce the previous dimension is the
\* dimension the simplex had just before the call and the previous
\* coordinates are the coordinates it held just before the call, whether or
\* not the call reduced the simplex.
C15_SnapshotBeforeReduce == [][C15_Step]_vars

\* The call before this step was an accepted add_point.
AfterAccepted == VCalled("add_point") /\ vret = [kind |-> "bool", value |-> TRUE]

C16_Step ==
    (AfterAccepted /\ Returned) =>
        \A i \in 0..3 : i <= vs'.prev_dim => prev_point(vs', i) = Value(vs.vertices[i])

\* C16: after an accepted add_point followed by project_origin_and_reduce,
\* prev_point(i), for every i up to the previous dimension, is the vertex
\* that was in slot i before the reduction, whatever the reduction did.
C16_PrevPoint == [][C16_Step]_vars

(***************************************************************************)
(* Claims on the read-only calls (specification SpecQuery).                *)
(***************************************************************************)
Answered(name) == vret.kind = "query" /\ vret.call[1] = name

C17_Step ==
    \A loc \in Locations(vs.dim) :
        vret'.call = <<"project_origin", loc>> =>
            /\ vs' = vs
            /\ vret'.result = Value(project_origin_and_reduce_point(vs, loc))

\* C17: project_origin leaves the simplex (dimension, vertices, coordinates,
\* previous-state fields) as it was and returns the point that
\* project_origin_and_reduce returns on the same simplex, at every dimension.
C17_ProjectOrigin == [][C17_Step]_vars

\* project_origin was called on a tetrahedron whose projection is on a face.
C17_Witness ==
    /\ Answered("project_origin")
    /\ vs.dim = 3
    /\ vret.call[2][1] = "OnFace"

\* project_origin was called on a single vertex.
C17_WitnessVertex == Answered("project_origin") /\ vs.dim = 0

\* The last call that built the simplex, and the simplex before that call.
LastCall == vop[2]

Before == vop[3]

\* The vertices the last reduction dropped.
Dropped ==
    IF LastCall[1] = "project_origin_and_reduce"
    THEN VerticesAt(Before, 0..Before.dim) \ VerticesAt(vs, 0..vs.dim)
    ELSE {}

\* The values left in the slots above the dimension and in no slot below.
Stale == VerticesAt(vs, (vs.dim + 1)..3) \ VerticesAt(vs, 0..vs.dim)

\* C18: contains_point(p) is true exactly when p equals one of the vertices
\* of slots 0..dimension: true right after reset(p) and after an accepted
\* add_point(p), false for a vertex the last reduction dropped and for a
\* stale value of a slot above the dimension.
C18_ContainsPoint ==
    Answered("contains_point") =>
        LET pt == vret.call[2]
            found == vret.result.value
        IN  /\ found <=> pt \in VerticesAt(vs, 0..vs.dim)
            /\ LastCall = <<"reset", pt>> => found
            /\ LastCall = <<"add_point", pt, TRUE>> => found
            /\ pt \in Dropped => ~found
            /\ pt \in Stale => ~found

\* contains_point answered false for a vertex the last reduction dropped.
C18_Witness ==
    /\ Answered("contains_point")
    /\ vret.call[2] \in Dropped
    /\ vret.result = Value(FALSE)

\* contains_point answered true for the point just added.
C18_WitnessAdded ==
    /\ Answered("contains_point")
    /\ LastCall = <<"add_point", vret.call[2], TRUE>>
    /\ vret.result = Value(TRUE)

\* The accessor aborts exactly on the indices above limit.
FailsFastAbove(limit) == vret.result = Panic <=> vret.call[2] > limit

\* C19: point(i) and proj_coord(i) abort when i > dimension and return a
\* value for every i <= dimension; prev_point(i) and prev_proj_coord(i) abort
\* when i > previous dimension and return a value for every i <= previous
\* dimension.
C19_Accessors ==
    /\ Answered("point") => FailsFastAbove(vs.dim)
    /\ Answered("proj_coord") => FailsFastAbove(vs.dim)
    /\ Answered("prev_point") => FailsFastAbove(vs.prev_dim)
    /\ Answered("prev_proj_coord") => FailsFastAbove(vs.prev_dim)

(***************************************************************************)
(* The BallBallProximityDetector state machine (specification              *)
(* SpecProximity).                                                         *)
(***************************************************************************)
\* Radii of the balls range over 1..MaxRadius.
MaxRadius == 2

Centers == {Zero3, <<1, 0, 0>>, <<3, 0, 0>>}

Placements == {Iso(r, t) : r \in {RotId, RotZ90}, t \in Centers}

Shapes == {Ball(r) : r \in 1..MaxRadius} \cup {NotABall}

InitDetector == InitCK /\ InitSimplexIdle /\ InitProximity /\ InitGenerator /\ InitUtilities

UpdateWith(placements, shapes, margins) ==
    \E ma \in placements, mb \in placements, a \in shapes, b \in shapes, margin \in margins :
        /\ prox' = update(prox, ma, a, mb, b, margin)
        /\ UNCHANGED <<ck, op, ret, given1, given2, simplexVars, gen, util>>

Update == UpdateWith(Placements, Shapes, Margins)

SpecProximity == InitDetector /\ [][Update]_vars

(***************************************************************************)
(* Claims on the BallBallProximityDetector (specification SpecProximity).  *)
(***************************************************************************)
\* The class of two balls from the squared distance of their centers.
Classified(dist_sq, r1, r2, margin) ==
    CASE dist_sq < (r1 + r2) * (r1 + r2) -> "Intersecting"
      [] dist_sq >= (r1 + r2) * (r1 + r2) /\ dist_sq <= (r1 + r2 + margin) * (r1 + r2 + margin) ->
           "WithinMargin"
      [] OTHER -> "Disjoint"

C20_Step ==
    LET ma == prox'.call[2]
        a == prox'.call[3]
        mb == prox'.call[4]
        b == prox'.call[5]
        margin == prox'.call[6]
    IN  (a.kind = "Ball" /\ b.kind = "Ball") =>
            /\ prox'.returned
            /\ proximity(prox') =
                   Classified(NormSq(VSub(ma.tr, mb.tr)), a.radius, b.radius, margin)

\* C20: update on two balls returns true, and proximity() afterwards is
\* Intersecting iff the distance of the translation parts is below r1 + r2,
\* WithinMargin iff it is from r1 + r2 to r1 + r2 + margin, Disjoint
\* otherwise, whatever the rotations and the proximity stored before.
C20_BallBall == [][C20_Step]_vars

\* Two touching balls, one of them turned, over a detector that held
\* Intersecting: within the margin.
C20_Witness ==
    /\ prox.call[1] = "update"
    /\ prox.returned
    /\ prox.call[2].rot # prox.call[4].rot
    /\ NormSq(VSub(prox.call[2].tr, prox.call[4].tr))
           = (prox.call[3].radius + prox.call[5].radius) * (prox.call[3].radius + prox.call[5].radius)
    /\ proximity(prox) = "WithinMargin"

(***************************************************************************)
(* The capsule x capsule generator over time (specification                *)
(* SpecNarrowPhase): generate_contacts, called again and again for two     *)
(* pairs whose manifolds share one id allocator.  gen keeps the manifolds  *)
(* and the allocator from call to call; of a call it keeps the pair and    *)
(* what was returned.                                                      *)
(***************************************************************************)
\* The caller's linear prediction ranges over 0..MaxPrediction.
MaxPrediction == 1

\* Radii of the capsules range over 1..MaxCapsuleRadius.
MaxCapsuleRadius == 2

FeaturePairs == <<<<"Vertex0", "Vertex0">>, <<"Vertex0", "Vertex1">>>>

\* What the search can find for one pair of features: nothing, or a contact
\* at some distance of the two core shapes, somewhere.
Found(fp) ==
    {<<>>} \cup {<<[f1 |-> fp[1], f2 |-> fp[2], dist |-> d[1], pos |-> d[2]]>> :
                   d \in {<<3, 0>>, <<4, 7>>}}

\* A search finds at most one contact.
Searches == Found(FeaturePairs[1]) \cup Found(FeaturePairs[2])

\* The two shapes generate_contacts is given: two capsules, or a capsule and
\* another shape.
ShapePairs ==
    {<<Capsule(r), Capsule(1)>> : r \in 1..MaxCapsuleRadius}
        \cup {<<NotACapsule, Capsule(1)>>, <<Capsule(1), NotACapsule>>}

\* The world after generate_contacts was called for a pair, with the call.
Generated(w, pair, ma, a, mb, b, l, found) ==
    LET r == generate_contacts(ma, a, mb, b, ContactPrediction(l),
                               w.id_alloc, w.manifolds[pair], found)
    IN  [id_alloc |-> r.id_alloc,
         manifolds |-> [w.manifolds EXCEPT ![pair] = r.manifold],
         call |-> [name |-> "generate_contacts", pair |-> pair,
                   ma |-> ma, a |-> a, mb |-> mb, b |-> b,
                   prediction |-> ContactPrediction(l), found |-> found],
         returned |-> r.returned,
         prediction |-> r.prediction,
         sub_calls |-> r.sub_calls]

\* What is kept of a call until the next one.
Kept(w) ==
    [w EXCEPT !.call = [name |-> "generate_contacts", pair |-> w.call.pair],
              !.prediction = ContactPrediction(0),
              !.sub_calls = <<>>]

GenerateContacts ==
    \E pair \in PairIds, ab \in ShapePairs, l \in 0..MaxPrediction, found \in Searches :
        /\ gen' = Kept(Generated(gen, pair, identity, ab[1], Turn, ab[2], l, found))
        /\ UNCHANGED <<ck, op, ret, given1, given2, simplexVars, prox, util>>

SpecNarrowPhase == InitDetector /\ [][GenerateContacts]_vars

(***************************************************************************)
(* One call of a handler (specification SpecHandlers): generate_contacts   *)
(* on a world that earlier calls have built, kept in gen with the whole    *)
(* call, and update of the ball x ball detector.                           *)
(***************************************************************************)
\* The worlds one more call of generate_contacts leads to.
AfterGenerate(W) ==
    {Kept(Generated(w, pair, identity, ab[1], Turn, ab[2], l, found)) :
        w \in W, pair \in PairIds, ab \in ShapePairs, l \in 0..MaxPrediction,
        found \in Searches}

GeneratorWorlds ==
    LET once == AfterGenerate({GeneratorWorld_new})
    IN  {GeneratorWorld_new} \cup once \cup AfterGenerate(once)

InitHandlers ==
    /\ InitCK
    /\ InitSimplexIdle
    /\ InitProximity
    /\ gen \in GeneratorWorlds
    /\ InitUtilities

\* gen holds a whole call of generate_contacts.
WholeCall(w) == "found" \in DOMAIN w.call

GenerateContactsOnce ==
    \E pair \in PairIds, ma \in BakeIsos, ab \in ShapePairs, l \in 0..MaxPrediction,
       found \in Searches :
        /\ ~WholeCall(gen)
        /\ gen' = Generated(gen, pair, ma, ab[1], Turn, ab[2], l, found)
        /\ UNCHANGED <<ck, op, ret, given1, given2, simplexVars, prox, util>>

\* update of the detector on a ball or another shape, in one place.
UpdateInPlace == UpdateWith({identity}, {Ball(1), NotABall}, {0})

NextHandlers ==
    \/ GenerateContactsOnce
    \/ UpdateInPlace

SpecHandlers == InitHandlers /\ [][NextHandlers]_vars

(***************************************************************************)
(* Claims on one call of a handler (specification SpecHandlers).           *)
(***************************************************************************)
\* The step is a call of generate_contacts; otherwise it is one of update.
GenerateStep == gen' # gen

BothCapsules(c) == c.a.kind = "Capsule" /\ c.b.kind = "Capsule"

BothBalls(c) == c[3].kind = "Ball" /\ c[5].kind = "Ball"

C21_Step ==
    /\ (GenerateStep /\ ~BothCapsules(gen'.call)) =>
           /\ ~gen'.returned
           /\ gen'.sub_calls = <<>>
           /\ gen'.manifolds = gen.manifolds
           /\ gen'.id_alloc = gen.id_alloc
    /\ (~GenerateStep /\ ~BothBalls(prox'.call)) =>
           /\ ~prox'.returned
           /\ proximity(prox') = proximity(prox)

\* C21: generate_contacts on a shape that is not a capsule returns false,
\* does not invoke the sub-generator and leaves the manifolds and the id
\* allocator as they were; update on a shape that is not a ball returns false
\* and leaves the proximity, Disjoint at first, as it was.
C21_GuardMismatch == proximity(prox) = "Disjoint" /\ [][C21_Step]_vars

\* generate_contacts was refused for a pair whose manifold tracks a contact.
C21_Witness ==
    /\ WholeCall(gen)
    /\ ~BothCapsules(gen.call)
    /\ ~gen.returned
    /\ gen.manifolds[gen.call.pair] # {}

\* update was refused on a detector that holds Intersecting.
C21_WitnessDetector ==
    /\ prox.call[1] = "update"
    /\ ~BothBalls(prox.call)
    /\ proximity(prox) = "Intersecting"

\* What the sub-generator does when invoked with arguments sc on what the
\* search found.
SubResult(sc, found) ==
    sub_generate_contacts(sc.m1, sc.g1, sc.proc1, sc.m2, sc.g2, sc.proc2,
                          sc.prediction, sc.id_alloc, sc.manifold, found)

C22_Step ==
    (GenerateStep /\ BothCapsules(gen'.call)) =>
        LET c == gen'.call
            sc == gen'.sub_calls[1]
        IN  /\ Len(gen'.sub_calls) = 1
            /\ sc.g1 = segment(c.a) /\ sc.g2 = segment(c.b)
            /\ sc.m1 = c.ma /\ sc.m2 = c.mb
            /\ sc.manifold = gen.manifolds[c.pair]
            /\ sc.id_alloc = gen.id_alloc
            /\ linear(sc.prediction) = linear(c.prediction) + c.a.radius + c.b.radius
            /\ gen'.returned = SubResult(sc, c.found).returned
            /\ gen'.manifolds[c.pair] = SubResult(sc, c.found).manifold
            /\ gen'.id_alloc = SubResult(sc, c.found).id_alloc
            /\ gen'.prediction = c.prediction

\* C22: for two capsules generate_contacts invokes the sub-generator once,
\* on the two core segments, with the same transforms, the caller's manifold
\* and id allocator and a linear prediction of the caller's plus r1 + r2; it
\* returns what the sub-generator returns and leaves the caller's prediction
\* as it was.
C22_Delegation == [][C22_Step]_vars

\* generate_contacts was called for two capsules, the first of radius 2, with
\* a prediction of 1, on a pair whose manifold tracked a contact before.
C22_Witness ==
    /\ WholeCall(gen)
    /\ BothCapsules(gen.call)
    /\ gen.call.a.radius = 2
    /\ linear(gen.call.prediction) = 1
    /\ Len(gen.sub_calls) = 1
    /\ gen.sub_calls[1].manifold # {}

C23_Step ==
    (GenerateStep /\ BothCapsules(gen'.call)) =>
        \A t \in gen'.manifolds[gen'.call.pair] :
            /\ t.kinematic.margin1 = gen'.call.a.radius
            /\ t.kinematic.margin2 = gen'.call.b.radius
            /\ t.depth >= 0 - linear(gen'.call.prediction)

\* C23: every contact the capsule x capsule generator leaves in the manifold
\* carries the two capsule radii as its dilations and has, with them
\* accounted for, a depth of at least minus the caller's linear prediction,
\* although the segments were searched with the prediction plus r1 + r2.
C23_WithinPrediction == [][C23_Step]_vars

\* A call for two capsules with a prediction of 1 left a contact in the
\* manifold that is separated by exactly the prediction.
C23_Witness ==
    /\ WholeCall(gen)
    /\ BothCapsules(gen.call)
    /\ linear(gen.call.prediction) = 1
    /\ \E t \in gen.manifolds[gen.call.pair] : t.depth = 0 - 1

\* A call for two capsules whose search found a contact that is farther
\* than the prediction: nothing is left in the manifold.
C23_WitnessDropped ==
    /\ WholeCall(gen)
    /\ BothCapsules(gen.call)
    /\ gen.call.found # <<>>
    /\ gen.manifolds[gen.call.pair] = {}

\* The contacts of manifold m tracked for the same two features as t.
SameFeatures(m, t) == Tracking(m, t.kinematic)

\* The ids held by the contacts of all the manifolds of world w.
HeldIds(w) == UNION {Ids(w.manifolds[p]) : p \in PairIds}

C24_Step ==
    GenerateStep =>
        \A p \in PairIds :
            \A t \in gen'.manifolds[p] :
                IF SameFeatures(gen.manifolds[p], t) # {}
                THEN \A u \in SameFeatures(gen.manifolds[p], t) : t.id = u.id
                ELSE /\ t.id \notin HeldIds(gen)
                     /\ t.id \in gen.id_alloc.free \cup {gen.id_alloc.next}
                     /\ t.id \notin gen'.id_alloc.free
                     /\ t.id < gen'.id_alloc.next

\* C24: from one update of a pair's manifold to the next, a contact between
\* the two features of a contact tracked before keeps that contact's id,
\* wherever it is now, and a contact between two features not tracked before
\* has an id taken from the allocator that no tracked contact held.
C24_MatchByFeature == [][C24_Step]_vars

\* The manifold given to the sub-generator tracked a contact for the two
\* features of the contact found, somewhere else: the manifold now tracks
\* the new position under the old id.
C24_Witness ==
    /\ WholeCall(gen)
    /\ Len(gen.sub_calls) = 1
    /\ \E t \in gen.manifolds[gen.call.pair] :
           \E u \in SameFeatures(gen.sub_calls[1].manifold, t) :
               t.pos # u.pos /\ t.id = u.id

\* The manifold given to the sub-generator tracked a contact at the very
\* position of the contact found, for other features: the new contact has
\* another id.
C24_WitnessFresh ==
    /\ WholeCall(gen)
    /\ Len(gen.sub_calls) = 1
    /\ \E t \in gen.manifolds[gen.call.pair] :
           /\ SameFeatures(gen.sub_calls[1].manifold, t) = {}
           /\ \E u \in gen.sub_calls[1].manifold : u.pos = t.pos /\ u.id # t.id

\* The tracked contacts of world w, each with the pair it belongs to.
TrackedIn(w) ==
    {x \in PairIds \X UNION {w.manifolds[q] : q \in PairIds} : x[2] \in w.manifolds[x[1]]}

\* An id of world w' that no contact of world w held.
HandedOut(w, wn) == HeldIds(wn) \ HeldIds(w)

C25_Distinct ==
    /\ \A x, y \in TrackedIn(gen) : x[2].id = y[2].id => x = y
    /\ HeldIds(gen) \cap gen.id_alloc.free = {}
    /\ \A i \in HeldIds(gen) : i < gen.id_alloc.next

C25_Step ==
    \A i \in HandedOut(gen, gen') : i \in gen.id_alloc.free \cup {gen.id_alloc.next}

\* C25: with one allocator shared by the manifolds of all pairs, no two
\* contacts tracked at the same time hold the same id, no held id is in the
\* allocator's free list or beyond its counter, and an id handed out by a
\* step was free or unused before it.
C25_SharedAllocator == []C25_Distinct /\ [][C25_Step]_vars

\* Both pairs track a contact while an id that was freed waits for reuse.
C25_Witness ==
    /\ \A p \in PairIds : gen.manifolds[p] # {}
    /\ gen.id_alloc.free # {}

\* Three ids were handed out while at most two contacts are tracked at a
\* time, and the last of them is free again: one of the two ids held now was
\* freed and handed out a second time.
C25_WitnessReused ==
    /\ HeldIds(gen) = {0, 1}
    /\ gen.id_alloc.free = {2}
    /\ gen.id_alloc.next = 3

(***************************************************************************)
(* The two unit balls of the end-to-end example as a Point x Point         *)
(* kinematic: anchors at the two centres, (0,0,0) and (1.5,0,0), lengths   *)
(* in halves (specification SpecEndToEnd).                                 *)
(***************************************************************************)
Center1 == Zero3

Center2 == <<3, 0, 0>>

EndToEndSeeds ==
    {set_dilation2(set_dilation1(
         set_point2(set_point1(new, "Vertex", Center1, c1), "Vertex", Center2, c2), x), y) :
       c1 \in SeedCones, c2 \in SeedCones, x \in Margins, y \in Margins}

InitEndToEnd ==
    /\ ck \in EndToEndSeeds
    /\ op = <<"seed">>
    /\ ret = NoCall
    /\ given1 = "Point"
    /\ given2 = "Point"
    /\ InitSimplexIdle
    /\ InitProximity
    /\ InitGenerator
    /\ InitUtilities

SpecEndToEnd == InitEndToEnd /\ [][ContactEval]_vars

\* contact() was called with identity transforms on the kinematic of the
\* example, with zero margins.
ExampleCase ==
    /\ Called
    /\ ck.variant[1] = "PointPoint"
    /\ ck.local1 = Center1 /\ ck.local2 = Center2
    /\ op[2] = identity /\ op[3] = identity
    /\ ZeroMargins

\* C26 as claimed: with side 1 anchored at (0,0,0), side 2 at (1.5,0,0),
\* identity transforms and zero margins, contact() returns normal (1,0,0) and
\* depth -0.5.
C26_ExampleDepth ==
    ExampleCase => (ret.kind = "Some" /\ ret.normal = Ex /\ ret.depth = Root(-1, 1))

\* C26 as amended: in that case contact() returns the distance of the two
\* anchors, 1.5, as the depth:  normal (1,0,0) and depth -1.5 when the
\* direction (1,0,0) passes the cone test of neither side, normal (-1,0,0)
\* and depth +1.5 when it passes one.
C26_ExampleDistance ==
    ExampleCase =>
        /\ ret.kind = "Some"
        /\ IF InEitherCone
           THEN ret.normal = VNeg(Ex) /\ ret.depth = RInt(3)
           ELSE ret.normal = Ex /\ ret.depth = RInt(0 - 3)

\* The example evaluated with cones that the direction passes on neither
\* side: a separation of 1.5 along (1,0,0).
C26_Witness == ExampleCase /\ ~InEitherCone /\ ret.normal = Ex /\ ret.depth.rat = 0 - 3

\* The example evaluated with cones of no generator: the direction passes.
C26_WitnessNoCone ==
    ExampleCase /\ ck.normals1 = <<>> /\ ck.normals2 = <<>> /\ ret.depth.rat = 3

(***************************************************************************)
(* util::pair: Pair and PairTWHash.  An object is what HasUid shows of it. *)
(***************************************************************************)
MaxUid == 3

HalfBits == 2

Object(u) == [uid |-> u]

uid(b) == b.uid

Objects == {Object(u) : u \in 0..MaxUid}

\* Pair::new storing the two uids in the order of its arguments.
Pair_new_as_given(a, b) ==
    [first |-> a, second |-> b, ifirst |-> uid(a), isecond |-> uid(b)]

Pair_new(a, b) ==
    LET ia == uid(a)
        ib == uid(b)
    IN  IF uid(a) < uid(b)
        THEN [first |-> a, second |-> b, ifirst |-> ia, isecond |-> ib]
        ELSE [first |-> a, second |-> b, ifirst |-> ib, isecond |-> ia]

\* impl Eq for Pair
Pair_eq(self, other) == self.ifirst = other.ifirst /\ self.isecond = other.isecond

\* A word has two halves of HalfBits bits.
Half == 2 ^ HalfBits

Word == Half * Half

RECURSIVE Xor(_, _)
Xor(a, b) ==
    IF a = 0 THEN b
    ELSE IF b = 0 THEN a
    ELSE ((a + b) % 2) + 2 * Xor(a \div 2, b \div 2)

\* hash::key_from_pair: the low half of each key, packed in one word.
key_from_pair(a, b) == (a % Half) + (b % Half) * Half

\* hash::tomas_wang_hash: an integer mix of the key by shifts, complements,
\* additions and exclusive ors, on one word.
tomas_wang_hash(k) ==
    LET r1 == (k + ((Word - 1) - ((k * 2) % Word))) % Word
        r2 == Xor(r1, r1 \div 4)
        r3 == (r2 + ((r2 * 8) % Word)) % Word
    IN  Xor(r3, r3 \div 2)

\* PairTWHash::hash
PairTWHash_hash(p) == tomas_wang_hash(key_from_pair(p.ifirst, p.isecond))

UtilUnchanged == UNCHANGED <<ck, op, ret, given1, given2, simplexVars, prox, gen>>

\* Two pairs are built, compared and hashed, once.
PairNew ==
    /\ util = NoUtility
    /\ \E a \in Objects, b \in Objects, c \in Objects, d \in Objects :
           /\ util' = [name |-> "Pair",
                       p |-> Pair_new(a, b), q |-> Pair_new(c, d),
                       eq |-> Pair_eq(Pair_new(a, b), Pair_new(c, d)),
                       hash_p |-> PairTWHash_hash(Pair_new(a, b)),
                       hash_q |-> PairTWHash_hash(Pair_new(c, d))]
           /\ UtilUnchanged

SpecPair == Init /\ [][PairNew]_vars

Uids(p) == {uid(p.first), uid(p.second)}

Swapped(p, q) == q.first = p.second /\ q.second = p.first

\* C27: a Pair stores its two uids with ifirst <= isecond; two pairs compare
\* equal exactly when they are built from the same set of uids, so that
\* Pair::new(a, b) and Pair::new(b, a) compare equal, and equal pairs have
\* the same PairTWHash.
C27_Unordered ==
    util.name = "Pair" =>
        /\ util.p.ifirst <= util.p.isecond
        /\ util.q.ifirst <= util.q.isecond
        /\ util.eq <=> (Uids(util.p) = Uids(util.q))
        /\ Swapped(util.p, util.q) => (util.eq /\ util.hash_p = util.hash_q)
        /\ util.eq => util.hash_p = util.hash_q

\* Pair::new(a, b) and Pair::new(b, a) were built for two objects of
\* different uids, the larger one given first.
C27_Witness ==
    /\ util.name = "Pair"
    /\ Swapped(util.p, util.q)
    /\ uid(util.p.first) > uid(util.p.second)
    /\ util.p # util.q
    /\ util.eq

\* Two pairs with one object in common were built: they compare unequal.
C27_WitnessUnequal ==
    /\ util.name = "Pair"
    /\ Uids(util.p) \cap Uids(util.q) # {}
    /\ ~util.eq

(***************************************************************************)
(* utils::triangle.  A distance is kept exact, as a symbol whose square is *)
(* the squared distance: a number is a polynomial in the three distances   *)
(* of the triangle, with one integer coefficient for each product of       *)
(* distinct symbols.                                                       *)
(***************************************************************************)
Monos == SUBSET {1, 2, 3}

PConst(k) == [m \in Monos |-> IF m = {} THEN k ELSE 0]

PSym(i) == [m \in Monos |-> IF m = {i} THEN 1 ELSE 0]

PAdd(x, y) == [m \in Monos |-> x[m] + y[m]]

PSub(x, y) == [m \in Monos |-> x[m] - y[m]]

SymDiff(m, n) == (m \ n) \cup (n \ m)

\* The product of the squares sq of the symbols of m.
SqProd(m, sq) ==
    (IF 1 \in m THEN sq[1] ELSE 1) * (IF 2 \in m THEN sq[2] ELSE 1)
        * (IF 3 \in m THEN sq[3] ELSE 1)

RECURSIVE PSum(_, _, _, _, _)
\* The coefficient of m in x * y: the sum over the monomials of set ms.
PSum(x, y, sq, m, ms) ==
    IF ms = {} THEN 0
    ELSE LET m1 == CHOOSE n \in ms : TRUE
             m2 == SymDiff(m1, m)
         IN  x[m1] * y[m2] * SqProd(m1 \cap m2, sq) + PSum(x, y, sq, m, ms \ {m1})

PMul(x, y, sq) == [m \in Monos |-> PSum(x, y, sq, m, Monos)]

\* utils::sort3 on the three distances, by their squares sq: the symbols,
\* smallest distance first.
sort3(sq) ==
    CHOOSE t \in {<<1, 2, 3>>, <<1, 3, 2>>, <<2, 1, 3>>, <<2, 3, 1>>, <<3, 1, 2>>, <<3, 2, 1>>} :
        sq[t[1]] <= sq[t[2]] /\ sq[t[2]] <= sq[t[3]]

\* na::dist of the three sides, squared.
SideSquares(pa, pb, pc) ==
    <<NormSq(VSub(pb, pa)), NormSq(VSub(pc, pb)), NormSq(VSub(pa, pc))>>

\* sqr.sqrt() * 0.25 as the pair of sqr and the divisor.
QuarterOfSqrt(sqr) == [sqr |-> sqr, over |-> 4]

\* triangle_area with b + c in its last factor.
triangle_area_sum_in_last_factor(pa, pb, pc) ==
    LET sq == SideSquares(pa, pb, pc)
        s == sort3(sq)
        a == PSym(s[3])
        b == PSym(s[2])
        c == PSym(s[1])
        f1 == PAdd(a, PAdd(b, c))
        f2 == PSub(c, PSub(a, b))
        f3 == PAdd(c, PSub(a, b))
        f4 == PAdd(a, PAdd(b, c))
    IN  QuarterOfSqrt(PMul(PMul(PMul(f1, f2, sq), f3, sq), f4, sq))

\* triangle_area: Kahan's formula.
triangle_area(pa, pb, pc) ==
    LET sq == SideSquares(pa, pb, pc)
        s == sort3(sq)
        a == PSym(s[3])
        b == PSym(s[2])
        c == PSym(s[1])
        f1 == PAdd(a, PAdd(b, c))
        f2 == PSub(c, PSub(a, b))
        f3 == PAdd(c, PSub(a, b))
        f4 == PAdd(a, PSub(b, c))
    IN  QuarterOfSqrt(PMul(PMul(PMul(f1, f2, sq), f3, sq), f4, sq))

is_point_in_triangle(p, p1, p2, p3) ==
    LET p1p2 == VSub(p2, p1)
        p2p3 == VSub(p3, p2)
        p3p1 == VSub(p1, p3)
        d11 == Dot(VSub(p, p1), p1p2)
        d12 == Dot(VSub(p, p2), p2p3)
        d13 == Dot(VSub(p, p3), p3p1)
    IN  /\ d11 >= 0 /\ d11 <= NormSq(p1p2)
        /\ d12 >= 0 /\ d12 <= NormSq(p2p3)
        /\ d13 >= 0 /\ d13 <= NormSq(p3p1)

\* The vertices given to triangle_area: those of test_triangle_area and a
\* few more.
AreaPoints == {<<0, 5, 0>>, Zero3, <<0, 0, 4>>, <<1, 0, 0>>, <<1, 1, 0>>, <<2, 1, 1>>}

MaxCoord == 2

\* The points given to is_point_in_triangle: a grid of one plane.
PlanePoints == {<<x, y, 0>> : x \in 0..MaxCoord, y \in 0..MaxCoord}

TriangleArea ==
    /\ util = NoUtility
    /\ \E pa \in AreaPoints, pb \in AreaPoints, pc \in AreaPoints :
           /\ util' = [name |-> "triangle_area", pa |-> pa, pb |-> pb, pc |-> pc,
                       result |-> triangle_area(pa, pb, pc)]
           /\ UtilUnchanged

IsPointInTriangle ==
    /\ util = NoUtility
    /\ \E p \in PlanePoints, p1 \in PlanePoints, p2 \in PlanePoints, p3 \in PlanePoints :
           /\ util' = [name |-> "is_point_in_triangle", p |-> p, p1 |-> p1, p2 |-> p2,
                       p3 |-> p3, result |-> is_point_in_triangle(p, p1, p2, p3)]
           /\ UtilUnchanged

NextTriangle == TriangleArea \/ IsPointInTriangle

SpecTriangle == Init /\ [][NextTriangle]_vars

\* The number sqrt(r.sqr) / r.over is the rational k: r.sqr has no part in
\* the distances and is the square of k * r.over.
IsRational(r, k) == r.sqr = PConst((k * r.over) * (k * r.over))

\* Twice the area of the triangle, squared: the squared norm of the cross
\* product of two edge vectors.
CrossSq(pa, pb, pc) == NormSq(Cross(VSub(pb, pa), VSub(pc, pa)))

\* The number sqrt(r.sqr) / r.over is half the norm of the cross product:
\* (4 * area)^2 = 4 * |cross|^2.
IsHalfCross(r, pa, pb, pc) == r.over = 4 /\ r.sqr = PConst(4 * CrossSq(pa, pb, pc))

AreaCalled == util.name = "triangle_area"

\* C28: triangle_area returns half the norm of the cross product of two edge
\* vectors, whatever the order of the three vertices, and 10 for the right
\* triangle with legs 5 and 4 of test_triangle_area.
C28_Area ==
    AreaCalled =>
        /\ IsHalfCross(util.result, util.pa, util.pb, util.pc)
        /\ triangle_area(util.pb, util.pa, util.pc) = util.result
        /\ triangle_area(util.pc, util.pb, util.pa) = util.result
        /\ triangle_area(util.pb, util.pc, util.pa) = util.result
        /\ (util.pa = <<0, 5, 0>> /\ util.pb = Zero3 /\ util.pc = <<0, 0, 4>>)
               => IsRational(util.result, 10)

\* test_triangle_area: the right triangle with legs 5 and 4 has area 10.
C28_Witness ==
    /\ AreaCalled
    /\ util.pa = <<0, 5, 0>> /\ util.pb = Zero3 /\ util.pc = <<0, 0, 4>>
    /\ IsRational(util.result, 10)

\* A triangle of three sides of different lengths, none of them rational,
\* given with its longest side last.
C28_WitnessScalene ==
    /\ AreaCalled
    /\ LET sq == SideSquares(util.pa, util.pb, util.pc)
       IN  /\ sq[1] < sq[2] /\ sq[2] < sq[3]
           /\ \A i \in 1..3 : ~IsSquare(sq[i])
    /\ CrossSq(util.pa, util.pb, util.pc) > 0

PointCalled == util.name = "is_point_in_triangle"

NonDegenerate(p1, p2, p3) == Cross(VSub(p2, p1), VSub(p3, p1)) # Zero3

\* p is on the inner side of the edge from q1 to q2 of a triangle of normal n,
\* or on the line of the edge.
InnerSide(p, q1, q2, n) == Dot(Cross(VSub(q2, q1), VSub(p, q1)), n) >= 0

\* p, a point of the plane of the triangle, is inside the triangle or on its
\* boundary.
InsideOrOn(p, p1, p2, p3) ==
    LET n == Cross(VSub(p2, p1), VSub(p3, p1))
    IN  /\ Dot(VSub(p, p1), n) = 0
        /\ InnerSide(p, p1, p2, n)
        /\ InnerSide(p, p2, p3, n)
        /\ InnerSide(p, p3, p1, n)

\* C29: for a point p of the plane of a non-degenerate triangle,
\* is_point_in_triangle returns true exactly when p is inside the triangle
\* or on its boundary.
C29_InsideExactly ==
    (PointCalled /\ NonDegenerate(util.p1, util.p2, util.p3)) =>
        (util.result <=> InsideOrOn(util.p, util.p1, util.p2, util.p3))

C30_Step ==
    (vs.status = "ok" /\ vop'[1] = "project_origin_and_reduce") => vs'.status = "ok"

\* C30: project_origin_and_reduce completes, without an index out of range
\* and without an abort, on every simplex of dimension 0 to 3 and for every
\* region the projection reports.
C30_Completes == [][C30_Step]_vars

(***************************************************************************)
(* Claims on the ContactKinematic state machine (specification Spec),      *)
(* continued.                                                              *)
(***************************************************************************)
\* The cone of a side whose role is Plane has one generator, and contact()
\* never indexes an empty cone.
C31_OneGenerator ==
    /\ Role1(ck.variant) = "Plane" => Len(ck.normals1) = 1
    /\ Role2(ck.variant) = "Plane" => Len(ck.normals2) = 1
    /\ ret # Panic

\* The one generator is the normal given to set_plane, turned by each later
\* transform of that side and left alone by every other call.
C31_Step ==
    /\ op'[1] = "set_plane1" => \E n \in Normals : ck'.normals1 = <<n>>
    /\ op'[1] = "set_plane2" => \E n \in Normals : ck'.normals2 = <<n>>
    /\ (op'[1] = "transform1" /\ Role1(ck.variant) = "Plane") =>
           ck'.normals1 = <<transform_unit_vector(op'[2], ck.normals1[1])>>
    /\ (op'[1] = "transform2" /\ Role2(ck.variant) = "Plane") =>
           ck'.normals2 = <<transform_unit_vector(op'[2], ck.normals2[1])>>
    /\ (op'[1] \notin {"set_plane1", "transform1"} /\ Role1(ck'.variant) = "Plane") =>
           ck'.normals1 = ck.normals1
    /\ (op'[1] \notin {"set_plane2", "transform2"} /\ Role2(ck'.variant) = "Plane") =>
           ck'.normals2 = ck.normals2

\* C31: in every state reached from new() by set_*, transform and
\* set_dilation calls, a side whose role is Plane has a cone of exactly one
\* generator, the normal given to the last set_plane of that side as turned
\* by the transforms since, so that generators()[0] is in range whenever
\* contact() takes the Plane x Point or Point x Plane branch.
C31_PlaneCone == []C31_OneGenerator /\ [][C31_Step]_vars

\* contact() took the Plane x Point branch on a plane whose normal was turned
\* by a transform after set_plane1, and returned a contact.
C31_Witness ==
    /\ op[1] = "contact"
    /\ ck.variant = <<"PlanePoint">>
    /\ ck.normals1 = <<Ey>>
    /\ ret.kind = "Some"

\* The same on side 2, after side 2 was a point with a cone of its own.
C31_WitnessSide2 ==
    /\ op[1] = "contact"
    /\ ck.variant = <<"PointPlane">>
    /\ ck.normals2 = <<VNeg(Ex)>>
    /\ ret.kind = "Some"

\* The product of two rotations.
MatMul(a, b) ==
    LET bt == Transpose(b)
    IN  << <<Dot(a[1], bt[1]), Dot(a[1], bt[2]), Dot(a[1], bt[3])>>,
           <<Dot(a[2], bt[1]), Dot(a[2], bt[2]), Dot(a[2], bt[3])>>,
           <<Dot(a[3], bt[1]), Dot(a[3], bt[2]), Dot(a[3], bt[3])>> >>

\* m1 composed with m: the transform that applies m, then m1.
Compose(m1, m) == Iso(MatMul(m1.rot, m.rot), transform_point(m1, m.tr))

\* Kinematic k placed by m1 and m2 is a valid variant whose two features are
\* apart: no evaluation of it is degenerate.
SeparatedIn(k, m1, m2) ==
    LET w1 == transform_point(m1, k.local1)
        w2 == transform_point(m2, k.local2)
        d1 == transform_unit_vector(m1, Dir1(k.variant))
        d2 == transform_unit_vector(m2, Dir2(k.variant))
    IN  CASE k.variant[1] \in {"PlanePoint", "PointPlane"} -> TRUE
          [] k.variant[1] = "PointPoint" -> NormSq(VSub(w2, w1)) > default_epsilon_sq
          [] k.variant[1] = "LinePoint" -> PerpOffset(w1, d1, w2) # Zero3
          [] k.variant[1] = "PointLine" -> PerpOffset(w2, d2, w1) # Zero3
          [] k.variant[1] = "LineLine" ->
               /\ Cross(d1, d2) # Zero3
               /\ line_against_line(w1, d1, w2, d2)[1] # line_against_line(w1, d1, w2, d2)[2]
          [] OTHER -> FALSE

\* After transform1(m) or transform2(m), contact() on the state returns what
\* it returned before with m composed into the transform of that side.
BakedAsPassed(tags) ==
    /\ (op'[1] = "transform1" /\ ck.variant[1] \in tags) =>
           \A m1 \in BakeIsos, m2 \in BakeIsos, dn \in DefaultNormals :
               SeparatedIn(ck', m1, m2) =>
                   contact(ck', m1, m2, dn) = contact(ck, Compose(m1, op'[2]), m2, dn)
    /\ (op'[1] = "transform2" /\ ck.variant[1] \in tags) =>
           \A m1 \in BakeIsos, m2 \in BakeIsos, dn \in DefaultNormals :
               SeparatedIn(ck', m1, m2) =>
                   contact(ck', m1, m2, dn) = contact(ck, m1, Compose(m2, op'[2]), dn)

ValidTags == {"PlanePoint", "PointPlane", "PointPoint", "PointLine", "LinePoint", "LineLine"}

\* C32: for every valid variant, every transform m and every configuration
\* that is not degenerate, transform1(m) followed by contact(m1, m2, dn)
\* returns the contact that contact(m1 composed with m, m2, dn) returns on
\* the state before, and the same for transform2 and m2.
C32_BakedAsPassed == [][BakedAsPassed(ValidTags)]_vars

Roles == {"Point", "Line", "Plane"}

\* One set_* call on side 1, or on side 2, that gives the side role r.
SetRole1(k, r) ==
    CASE r = "Point" -> set_point1(k, "Vertex", Zero3, ConeNew)
      [] r = "Line" -> set_line1(k, "Edge", Zero3, Ex, ConeNew)
      [] r = "Plane" -> set_plane1(k, "Face", Zero3, Ex)

SetRole2(k, r) ==
    CASE r = "Point" -> set_point2(k, "Vertex", Zero3, ConeNew)
      [] r = "Line" -> set_line2(k, "Edge", Zero3, Ex, ConeNew)
      [] r = "Plane" -> set_plane2(k, "Face", Zero3, Ex)

\* From the state, one set_* call per side reaches each of the nine role
\* combinations, and from an invalid variant one set_* call reaches a valid
\* one.
C33_Reach ==
    /\ \A r1 \in Roles, r2 \in Roles :
           LET k2 == SetRole2(SetRole1(ck, r1), r2)
           IN  Role1(k2.variant) = r1 /\ Role2(k2.variant) = r2
    /\ ck.variant[1] \in InvalidTags =>
           \E r \in Roles : \/ SetRole1(ck, r).variant[1] \in ValidTags
                            \/ SetRole2(ck, r).variant[1] \in ValidTags

\* A set_* call that leads from an invalid variant to a valid one leads to a
\* state on which contact() returns a contact.
C33_Step ==
    (/\ ck.variant[1] \in InvalidTags
     /\ IsSet1(op') \/ IsSet2(op')
     /\ ck'.variant[1] \in ValidTags) =>
        \A m1 \in BakeIsos, m2 \in BakeIsos, dn \in DefaultNormals :
            contact(ck', m1, m2, dn).kind = "Some"

\* C33: the nine role combinations are reachable: from any variant each of
\* them is reached by one set_* call per side, the three invalid ones from
\* the initial Point x Point state too, and a single set_* call leads from
\* each invalid variant to a valid one on which contact() returns a contact
\* again.
C33_AllReachable == []C33_Reach /\ [][C33_Step]_vars

\* contact() returned a contact on a Point x Plane variant set up by
\* set_point1 and set_plane2, the variant that one set_point1 call reaches
\* from Plane x Plane and from Line x Plane.
C33_Witness ==
    /\ op[1] = "contact"
    /\ ck.variant = <<"PointPlane">>
    /\ ck.feature1 = "Vertex" /\ ck.feature2 = "Face"
    /\ ret.kind = "Some"

\* The three invalid variants, reached from new().
C33_WitnessPlanePlane == ck.variant[1] = "PlanePlane" /\ op[1] = "contact" /\ ret = NoContact

C33_WitnessPlaneLine == ck.variant[1] = "PlaneLine" /\ op[1] = "contact" /\ ret = NoContact

C33_WitnessLinePlane == ck.variant[1] = "LinePlane" /\ op[1] = "contact" /\ ret = NoContact

====
